---- MODULE Spec2Model ----
(***************************************************************************)
(* State-machine model of the KATANA SDK component server                  *)
(* (katana/server.py, katana/service.py, katana/payload.py).               *)
(*                                                                         *)
(* Spec      the request dispatcher: the listener loop on the REP socket,  *)
(*           one greenlet per request waiting on its pool worker, the      *)
(*           worker threads running __process_request_stream, and the      *)
(*           inproc PUSH/PULL queue that carries responses back.           *)
(* SpecMeta  ServiceServer.get_response_meta applied to bounded result     *)
(*           payloads.                                                     *)
(***************************************************************************)
EXTENDS Integers, Sequences, FiniteSets, TLC

(* ------------------------------ bounds --------------------------------- *)

\* Number of request frames the peers send during a run.
MaxRequests == 2

\* Number of requests whose timeout may fire during a run.
MaxTimeouts == 1

\* Largest number of entries in a transport section built by MetaInit.
MaxCalls == 2

(* --------------------------- program constants ------------------------- *)

\* Response meta flags, as byte strings (sequences of byte values).
EMPTY_META == <<0>>
SERVICE_CALL == <<1>>
FILES == <<2>>
TRANSACTIONS == <<3>>
DOWNLOAD == <<4>>

\* Default of the --timeout option, in milliseconds.
DefaultTimeout == 30000

\* CLI arguments of the component (name, version, timeout).
args == [name |-> "users", version |-> "1.0", timeout |-> DefaultTimeout]

\* ComponentServer.component_title: '"{}" ({})'.format(name, version)
component_title == "\"" \o args.name \o "\" (" \o args.version \o ")"

\* Mutant of callbacks: a handler is found for every action name sent.
callbacks_anyAction == {"test", "nope"}

\* Registered action handlers (keys of ComponentServer.callbacks).
callbacks == {"test"}

Requests == 1..MaxRequests

(* ------------------------ bytes and serialization ---------------------- *)

\* A frame part is a byte string.  Three shapes are told apart: UTF-8 text,
\* a msgpack document, and bytes that are neither.
Utf8(s) == [kind |-> "utf8", val |-> s]
InvalidBytes == [kind |-> "invalid"]
EmptyBytes == [kind |-> "empty"]

\* serialization.pack: the msgpack encoding of a document.
pack(doc) == [kind |-> "msgpack", val |-> doc]

\* serialization.unpack raises on bytes that are not msgpack.
CanUnpack(b) == b.kind = "msgpack"
unpack(b) == b.val

\* bytes.decode_utf8('utf8') raises on bytes that are not UTF-8.
CanDecodeUtf8(b) == b.kind = "utf8"
decode_utf8(b) == b.val

(* ------------------------------ payloads ------------------------------- *)

\* dict.update / key lookup with a default.
HasKey(d, k) == k \in DOMAIN d
GetOr(d, k, default) == IF HasKey(d, k) THEN d[k] ELSE default

\* Payload.entity(): the payload moved under its entity name.
entity(name, payload) == (name :> payload)

\* ErrorPayload.new: a field is stored only when its argument is truthy; the
\* class defaults (message 'Unknown error', code 0, status '500 Internal
\* Server Error') are read-time defaults and are not part of the document.
ErrorPayload_new(message, code, status) ==
  [k \in (IF message # "" THEN {"message"} ELSE {})
        \cup (IF code # 0 THEN {"code"} ELSE {})
        \cup (IF status # "" THEN {"status"} ELSE {})
     |-> CASE k = "message" -> message
           [] k = "code" -> code
           [] k = "status" -> status]

ErrorDefaults == [message |-> "Unknown error",
                  code |-> 0,
                  status |-> "500 Internal Server Error"]

\* ErrorPayload.get(field): the stored value or the class default.
ErrorField(err, k) == GetOr(err, k, ErrorDefaults[k])

\* CommandResultPayload.new(name, result).entity()
CommandResultPayload_new(name, result) ==
  entity("command_reply", [name |-> name, result |-> result])

\* Mutant of create_error_response: the error entity is wrapped as the result
\* of a command reply.
create_error_response_wrapped(message) ==
  <<EMPTY_META,
    pack(CommandResultPayload_new("", entity("error", ErrorPayload_new(message, 0, ""))))>>

\* create_error_response(message): [EMPTY_META, pack(ErrorPayload.new(message).entity())]
create_error_response(message) ==
  <<EMPTY_META, pack(entity("error", ErrorPayload_new(message, 0, "")))>>

InvalidActionMsg(action) ==
  "Invalid action for component " \o component_title \o ": \"" \o action \o "\""

\* 'SDK execution timed out after {}ms'.format(int(timeout * 1000), pid), with
\* timeout = args["timeout"] / 1000.0 (exact for the default of 30000 ms).
TimedOutMsg ==
  "SDK execution timed out after "
    \o ToString(((args.timeout \div 1000) * 1000)) \o "ms"

(* ------------------------------ transport ------------------------------ *)

\* A call target: the service, version and action a call descriptor names.
Target(n, v, a) == [name |-> n, version |-> v, action |-> a]

\* The transport document of request r as the command carries it.  Sections
\* are kept by what the server reads of them:
\*   id            meta/id
\*   gateway       whether meta/gateway (internal and public address) is set
\*   body          the download descriptor (0: none; n: the one the handler
\*                 of request n registered)
\*   transactions  number of registered transactions
\*   calls         call descriptors under calls/<component name>/<version>
\*   othercalls    number of call descriptors under other services
\*   files         targets gateway/service/version/action that hold files
\*   errors        error entries under errors/<gateway>/<name>/<version>
TransportPayload_new(r, gateway) ==
  [id |-> r, gateway |-> gateway, body |-> 0, transactions |-> 0,
   calls |-> <<>>, othercalls |-> 0, files |-> {}, errors |-> <<>>]

NoTransport == TransportPayload_new(0, FALSE)

\* The empty Payload() and a payload holding a return value.
EmptyPayload == [k \in {} |-> 0]
ReturnPayload(v) == [return |-> v]

(* --------------------------- response metadata ------------------------- *)

\* payload.get('command_reply/result/transport', None)
ResultTransport(payload) ==
  IF HasKey(payload, "command_reply")
       /\ HasKey(payload.command_reply.result, "transport")
  THEN <<payload.command_reply.result.transport>>
  ELSE <<>>

\* The lookup get_path(transport, 'meta/gateway')[1] raises KeyError when the
\* files check is reached on a transport without gateway addresses.
get_response_meta_raises(payload) ==
  /\ ResultTransport(payload) # <<>>
  /\ LET t == ResultTransport(payload)[1]
     IN t.calls # <<>> /\ t.files # {} /\ ~t.gateway

\* Mutant of get_response_meta: FILES is added whenever the transport has
\* files, with or without calls of this component.
get_response_meta_filesAlways(payload) ==
  IF ResultTransport(payload) = <<>> THEN <<>>
  ELSE LET t == ResultTransport(payload)[1]
           dl == IF t.body # 0 THEN DOWNLOAD ELSE <<>>
           tr == IF t.transactions # 0 THEN TRANSACTIONS ELSE <<>>
           se == IF t.calls # <<>> THEN SERVICE_CALL ELSE <<>>
           fi == IF t.files # {} THEN FILES ELSE <<>>
       IN dl \o tr \o se \o fi

\* ServiceServer.get_response_meta
get_response_meta(payload) ==
  IF ResultTransport(payload) = <<>> THEN <<>>
  ELSE LET t == ResultTransport(payload)[1]
           dl == IF t.body # 0 THEN DOWNLOAD ELSE <<>>
           tr == IF t.transactions # 0 THEN TRANSACTIONS ELSE <<>>
           se == IF t.calls # <<>> THEN SERVICE_CALL ELSE <<>>
           fi == IF /\ t.calls # <<>>
                    /\ \E i \in 1..Len(t.calls) : t.calls[i] \in t.files
                 THEN FILES ELSE <<>>
       IN dl \o tr \o se \o fi

\* [self.get_response_meta(payload) or EMPTY_META, pack(payload)]
ResponseFrames(payload) ==
  <<IF get_response_meta(payload) = <<>> THEN EMPTY_META
    ELSE get_response_meta(payload),
    pack(payload)>>

(* ---------------------------- schema registry -------------------------- *)

\* A mappings table: the service schemas the framework knows, each with
\* whether its action declares a return value and whether the service has
\* a file server.
Schema(n, v, ret, files) == [service |-> n, version |-> v, return |-> ret, files |-> files]

EmptyTable == {}
TableA == {Schema("users", "1.0", TRUE, TRUE)}
TableB == {Schema("users", "1.0", FALSE, FALSE), Schema("posts", "2.0", TRUE, FALSE)}

\* Mutant of update_registry: the new table is merged into the old one.
update_registry_merges(old, mappings) == old \cup mappings

\* SchemaRegistry.update_registry: self.__mappings = Payload(mappings or {})
update_registry(old, mappings) == mappings

\* Api.get_service_schema for the component's own name and version, then
\* get_action_schema: "none" when the schema cannot be resolved (ApiError),
\* else whether the action declares a return value.
ActionSchema(table) ==
  IF \E e \in table : e.service = args.name /\ e.version = args.version
  THEN IF (CHOOSE e \in table : e.service = args.name /\ e.version = args.version).return
       THEN "return" ELSE "noreturn"
  ELSE "none"

(* ------------------------------- requests ------------------------------ *)

\* CommandPayload of request r: command/name and command/arguments/transport.
Command(r, gateway) ==
  [command |-> [name |-> "cmd", arguments |-> [transport |-> TransportPayload_new(r, gateway)]],
   meta |-> [scope |-> "service"]]

\* The multipart request streams the peers send for request r.
Streams(r) ==
  { <<Utf8("test")>>,                                                    \* one part only
    <<Utf8("nope"), pack(TableA), pack(Command(r, TRUE))>>,              \* unregistered action
    <<InvalidBytes, InvalidBytes, pack(Command(r, TRUE))>>,              \* action is not UTF-8
    <<Utf8("test"), EmptyBytes, InvalidBytes>>,                          \* command does not unpack
    <<Utf8("test"), EmptyBytes, pack([meta |-> [scope |-> "service"]])>>, \* no command
    <<Utf8("test"), EmptyBytes, pack(Command(r, FALSE))>>,               \* transport without gateway
    <<Utf8("test"), EmptyBytes, pack(Command(r, TRUE))>>,
    <<Utf8("test"), pack(TableB), pack(Command(r, TRUE))>> }

\* What a userland handler does with its Action component before it returns
\* or raises.  An exception is the text str() gives with, for a KatanaError,
\* the code and status attributes the raised object carries.
Outcomes ==
  [kind : {"return"}, op : {"none", "set_download", "set_return"}]
  \cup [kind : {"KatanaError"}, message : {"denied"}, code : {7}, status : {"403 Forbidden"}]
  \cup [kind : {"Exception"}, message : {"boom", "secret"}]

NoOutcome == [kind |-> "none"]

\* KatanaError.__str__: self.message or self.__class__.__name__;
\* str() of any other exception is its text.
str(exc) ==
  IF exc.kind = "KatanaError" /\ exc.message = "" THEN "KatanaError" ELSE exc.message

(* ----------------------- documents and key paths ----------------------- *)

\* A Python str is a sequence of tokens: a token is a word (characters that
\* are neither '!' nor a delimiter, kept together) or one of the single
\* characters "!", "/" and "|".  'foo/!bar' is <<"foo", "/", "!", "bar">>.
\* Dictionary keys are such strings.
DELIMITER == "/"

\* A document value is a dict (a function from keys to values), a list or
\* an integer; d, l and n hold the content by type.
DictOf(f) == [t |-> "dict", d |-> f, l |-> <<>>, n |-> 0, s |-> ""]
ListOf(q) == [t |-> "list", d |-> <<>>, l |-> q, n |-> 0, s |-> ""]
IntOf(i) == [t |-> "int", d |-> <<>>, l |-> <<>>, n |-> i, s |-> ""]
StrOf(w) == [t |-> "str", d |-> <<>>, l |-> <<>>, n |-> 0, s |-> w]
EmptyDict == DictOf(<<>>)

IsDict(x) == x.t = "dict"
IsList(x) == x.t = "list"

\* Python truthiness of a value.
Truthy(x) ==
  CASE x.t = "dict" -> DOMAIN x.d # {}
    [] x.t = "list" -> x.l # <<>>
    [] x.t = "str" -> x.s # "" \/ x.l # <<>>
    [] OTHER -> x.n # 0

\* dict item assignment and deletion.
SetItem(d, k, x) ==
  DictOf([kk \in DOMAIN d.d \cup {k} |-> IF kk = k THEN x ELSE d.d[kk]])
DelItem(d, k) == DictOf([kk \in DOMAIN d.d \ {k} |-> d.d[kk]])

\* mappings.get(part, part); a table that is None or empty maps nothing.
NoMappings == <<>>
MapGet(mappings, part) ==
  IF part \in DOMAIN mappings THEN mappings[part] ELSE part

\* Index of the first delimiter token in s, 0 when there is none.
FindDelim(s, delimiter) ==
  IF \E i \in 1..Len(s) : s[i] = delimiter
  THEN CHOOSE i \in 1..Len(s) :
         s[i] = delimiter /\ \A j \in 1..(i - 1) : s[j] # delimiter
  ELSE 0

\* str.split(delimiter): the parts between delimiters, empty parts kept.
RECURSIVE split(_, _)
split(s, delimiter) ==
  LET i == FindDelim(s, delimiter)
  IN IF i = 0 THEN <<s>>
     ELSE <<SubSeq(s, 1, i - 1)>> \o split(SubSeq(s, i + 1, Len(s)), delimiter)

\* A part that starts with "!" names its key literally.
IsNoMap(part) == part # <<>> /\ Head(part) = "!"

\* The key get_path and delete_path look up for a part in item: the part
\* itself, or its mapped name when the part is not a key of item.
LookupName(item, part, mappings) ==
  IF IsNoMap(part) THEN Tail(part)
  ELSE IF mappings # NoMappings /\ part \notin DOMAIN item.d
       THEN MapGet(mappings, part)
       ELSE part

\* The key set_path and push store under for a part: always the mapped name.
StoreName(part, mappings) ==
  IF IsNoMap(part) THEN Tail(part) ELSE MapGet(mappings, part)

\* get_path over the parts of a path.  Indexing a list or an integer with a
\* key raises TypeError, which get_path does not catch.
RECURSIVE get_parts(_, _, _)
get_parts(item, parts, mappings) ==
  IF parts = <<>> THEN [st |-> "ok", val |-> item]
  ELSE IF ~IsDict(item) THEN [st |-> "TypeError"]
  ELSE LET name == LookupName(item, Head(parts), mappings)
       IN IF name \in DOMAIN item.d
          THEN get_parts(item.d[name], Tail(parts), mappings)
          ELSE [st |-> "KeyError"]

\* utils.get_path without a default.
get_path(item, path, mappings, delimiter) ==
  get_parts(item, split(path, delimiter), mappings)

\* set_path over the parts of a path: [st, doc], doc the item afterwards.
RECURSIVE set_parts(_, _, _, _)
set_parts(item, parts, value, mappings) ==
  LET name == StoreName(Head(parts), mappings)
  IN IF Len(parts) = 1 THEN [st |-> "ok", doc |-> SetItem(item, name, value)]
     ELSE IF name \in DOMAIN item.d /\ ~IsDict(item.d[name])
     THEN [st |-> "TypeError", doc |-> item]
     ELSE LET inner == IF name \in DOMAIN item.d THEN item.d[name] ELSE EmptyDict
              r == set_parts(inner, Tail(parts), value, mappings)
          IN IF r.st = "ok"
             THEN [st |-> "ok", doc |-> SetItem(item, name, r.doc)]
             ELSE [st |-> r.st, doc |-> item]

\* utils.set_path
set_path(item, path, value, mappings, delimiter) ==
  set_parts(item, split(path, delimiter), value, mappings)

\* utils.delete_path: [st, doc] with st "True", "False" or "TypeError" and
\* doc the item afterwards.  The path is split once; the rest is deleted
\* from item[name] by a recursive call that is not given the delimiter and
\* so splits with the default one.  KeyError gives False; indexing a list
\* or an integer with a key raises TypeError, which is not caught.
RECURSIVE delete_path(_, _, _, _)
delete_path(item, path, mappings, delimiter) ==
  LET i == FindDelim(path, delimiter)
      part == IF i = 0 THEN path ELSE SubSeq(path, 1, i - 1)
      rest == SubSeq(path, i + 1, Len(path))
  IN IF ~IsDict(item) THEN [st |-> "TypeError", doc |-> item]
     ELSE LET name == LookupName(item, part, mappings)
          IN IF name \notin DOMAIN item.d THEN [st |-> "False", doc |-> item]
             ELSE IF i = 0 THEN [st |-> "True", doc |-> DelItem(item, name)]
             ELSE LET r == delete_path(item.d[name], rest, mappings, DELIMITER)
                  IN IF r.st # "True" THEN [st |-> r.st, doc |-> item]
                     ELSE [st |-> "True",
                           doc |-> IF Truthy(r.doc) THEN SetItem(item, name, r.doc)
                                   ELSE DelItem(item, name)]

\* LookupDict.push over the parts of a path.
RECURSIVE push_parts(_, _, _, _)
push_parts(item, parts, value, mappings) ==
  LET name == StoreName(Head(parts), mappings)
  IN IF Len(parts) = 1
     THEN IF name \notin DOMAIN item.d
          THEN [st |-> "ok", doc |-> SetItem(item, name, ListOf(<<value>>))]
          ELSE IF ~IsList(item.d[name]) THEN [st |-> "TypeError", doc |-> item]
          ELSE [st |-> "ok",
                doc |-> SetItem(item, name, ListOf(Append(item.d[name].l, value)))]
     ELSE IF name \in DOMAIN item.d /\ ~IsDict(item.d[name])
     THEN [st |-> "TypeError", doc |-> item]
     ELSE LET inner == IF name \in DOMAIN item.d THEN item.d[name] ELSE EmptyDict
              r == push_parts(inner, Tail(parts), value, mappings)
          IN IF r.st = "ok"
             THEN [st |-> "ok", doc |-> SetItem(item, name, r.doc)]
             ELSE [st |-> r.st, doc |-> item]

\* LookupDict.push
push(item, path, value, mappings, delimiter) ==
  push_parts(item, split(path, delimiter), value, mappings)

\* The order in which a dict yields its keys: fixed for one dict, and not
\* otherwise specified.
KeyOrder(keys) ==
  CHOOSE q \in [1..Cardinality(keys) -> keys] : \A k \in keys : \E i \in DOMAIN q : q[i] = k

\* Every order in which a dict of these keys may yield them.
KeyOrders(keys) ==
  {q \in [1..Cardinality(keys) -> keys] : \A k \in keys : \E i \in DOMAIN q : q[i] = k}

\* utils.merge, one source key after the other: [st, doc] with doc the
\* destination afterwards.  A key the destination lacks is looked up by
\* its mapped name; a value the destination lacks is stored under the
\* mapped name; dicts on both sides are merged recursively; with `lists`,
\* lists on both sides are joined, the destination's entries first;
\* anything else in the destination stays as it is.
RECURSIVE merge_keys(_, _, _, _, _)
merge_keys(from_value, to_value, keys, mappings, lists) ==
  IF keys = <<>> THEN [st |-> "ok", doc |-> to_value]
  ELSE IF ~IsDict(to_value) THEN [st |-> "TypeError", doc |-> to_value]
  ELSE
    LET key == Head(keys)
        value == from_value.d[key]
        name == IF key \notin DOMAIN to_value.d /\ mappings # NoMappings
                THEN MapGet(mappings, key) ELSE key
        r == IF name \notin DOMAIN to_value.d
             THEN [st |-> "ok",
                   doc |-> SetItem(to_value,
                                   IF name = key /\ mappings # NoMappings
                                   THEN MapGet(mappings, name) ELSE name,
                                   value)]
             ELSE IF IsDict(value)
             THEN LET m == merge_keys(value, to_value.d[name],
                                      KeyOrder(DOMAIN value.d), mappings, lists)
                  IN [st |-> m.st, doc |-> SetItem(to_value, name, m.doc)]
             ELSE IF lists /\ IsList(value) /\ IsList(to_value.d[name])
             THEN [st |-> "ok",
                   doc |-> SetItem(to_value, name,
                                   ListOf(to_value.d[name].l \o value.l))]
             ELSE [st |-> "ok", doc |-> to_value]
    IN IF r.st # "ok" THEN r
       ELSE merge_keys(from_value, r.doc, Tail(keys), mappings, lists)

\* Mutant of merge: lists found on both sides are never joined.
merge_noLists(from_value, to_value, mappings, lists) ==
  merge_keys(from_value, to_value, KeyOrder(DOMAIN from_value.d), mappings, FALSE)

\* Mutant of merge: the destination is merged into the source.
merge_swapped(from_value, to_value, mappings, lists) ==
  merge_keys(to_value, from_value, KeyOrder(DOMAIN to_value.d), mappings, lists)

\* utils.merge
merge(from_value, to_value, mappings, lists) ==
  merge_keys(from_value, to_value, KeyOrder(DOMAIN from_value.d), mappings, lists)

\* LookupDict.path_exists
path_exists(item, path, mappings, delimiter) ==
  get_path(item, path, mappings, delimiter).st = "ok"

\* The item after the value that get_parts finds at `parts` has been changed
\* in place to `value`.
RECURSIVE update_found(_, _, _, _)
update_found(item, parts, value, mappings) ==
  IF parts = <<>> THEN value
  ELSE LET name == LookupName(item, Head(parts), mappings)
       IN SetItem(item, name, update_found(item.d[name], Tail(parts), value, mappings))

\* The dict LookupDict.merge merges into: the one at the path, or the
\* empty dict it sets there first.
merge_item(item, path, mappings, delimiter) ==
  LET g == get_path(item, path, mappings, delimiter)
  IN IF g.st = "ok" THEN g.val ELSE EmptyDict

\* LookupDict.merge with no defaults registered, `merged` being what the
\* call of merge on the dict at the path gave: [st, doc].  An existing
\* dict at the path is merged into in place; otherwise an empty dict is
\* set at the path first.
LookupDict_merge_in(item, path, value, merged, mappings, delimiter) ==
  IF ~IsDict(value) THEN [st |-> "TypeError", doc |-> item]
  ELSE LET g == get_path(item, path, mappings, delimiter)
       IN IF g.st = "TypeError" THEN [st |-> "TypeError", doc |-> item]
          ELSE IF g.st = "ok" /\ ~IsDict(g.val) THEN [st |-> "TypeError", doc |-> item]
          ELSE IF g.st = "ok"
          THEN [st |-> merged.st,
                doc |-> update_found(item, split(path, delimiter), merged.doc, mappings)]
          ELSE set_path(item, path, merged.doc, mappings, delimiter)

\* LookupDict.merge
LookupDict_merge(item, path, value, mappings, delimiter) ==
  LookupDict_merge_in(item, path, value,
                      merge(value, merge_item(item, path, mappings, delimiter), mappings, TRUE),
                      mappings, delimiter)

(* --------------------- payloads of the Action calls -------------------- *)

\* A string of one token: a name without delimiter or '!'.
Key(w) == <<w>>

\* utils.nomap: "!{}".format(value)
nomap(value) == <<"!">> \o value

\* payload.FIELD_MAPPINGS, the entries for the names used below.
FIELD_MAPPINGS ==
  (Key("action") :> Key("a")) @@ (Key("calls") :> Key("C")) @@
  (Key("data") :> Key("d")) @@ (Key("errors") :> Key("e")) @@
  (Key("filename") :> Key("f")) @@ (Key("files") :> Key("f")) @@
  (Key("gateway") :> Key("g")) @@ (Key("level") :> Key("l")) @@
  (Key("links") :> Key("l")) @@ (Key("meta") :> Key("m")) @@
  (Key("mime") :> Key("m")) @@ (Key("name") :> Key("n")) @@
  (Key("path") :> Key("p")) @@ (Key("relations") :> Key("r")) @@
  (Key("size") :> Key("s")) @@ (Key("timeout") :> Key("x")) @@
  (Key("token") :> Key("t")) @@ (Key("transactions") :> Key("t")) @@
  (Key("version") :> Key("v"))

\* The sections of a callee's transport that Action.call merges back.
TRANSPORT_MERGEABLE_PATHS ==
  <<Key("data"), Key("relations"), Key("links"), Key("calls"),
    Key("transactions"), Key("errors")>>

\* LookupDict.set_many on a new Payload: each <<path, value>> is set in turn.
RECURSIVE set_many(_, _)
set_many(item, values) ==
  IF values = <<>> THEN item
  ELSE set_many(set_path(item, Head(values)[1], Head(values)[2],
                         FIELD_MAPPINGS, DELIMITER).doc,
                Tail(values))

\* A File given to a call: local when its path starts with file://
LocalFile == [name |-> "avatar", path |-> "file:///tmp/avatar.png", local |-> TRUE]
RemoteFile == [name |-> "logo", path |-> "http://cdn/logo.png", local |-> FALSE]
FileLists == {<<>>, <<RemoteFile>>, <<LocalFile>>, <<RemoteFile, LocalFile>>}

\* file.file_to_payload
file_to_payload(file) ==
  set_many(EmptyDict,
           << <<Key("name"), StrOf(file.name)>>, <<Key("path"), StrOf(file.path)>>,
              <<Key("mime"), StrOf("image/png")>>, <<Key("filename"), StrOf(file.name)>>,
              <<Key("size"), IntOf(1)>>, <<Key("token"), StrOf("")>> >>)

\* The callee of every call made here, and the name of the calling action.
Callee == [service |-> "posts", version |-> "2.0", action |-> "list"]
CallerAction == "test"
RemoteAddress == "87.65.43.21:4321"

\* Action.defer_call: the payload pushed to the calls of the transport.
DeferredCallPayload ==
  set_many(EmptyDict,
           << <<Key("name"), StrOf(Callee.service)>>,
              <<Key("version"), StrOf(Callee.version)>>,
              <<Key("action"), StrOf(Callee.action)>>,
              <<Key("caller"), StrOf(CallerAction)>> >>)

\* Default of the timeout of a remote call, in milliseconds.
RemoteCallTimeout == 1000

\* Action.remote_call: the payload pushed to the calls of the transport; the
\* address is given the ktp:// scheme when it has none.
RemoteCallPayload ==
  set_many(EmptyDict,
           << <<Key("gateway"), StrOf("ktp://" \o RemoteAddress)>>,
              <<Key("name"), StrOf(Callee.service)>>,
              <<Key("version"), StrOf(Callee.version)>>,
              <<Key("action"), StrOf(Callee.action)>>,
              <<Key("caller"), StrOf(CallerAction)>>,
              <<Key("timeout"), IntOf(RemoteCallTimeout)>> >>)

\* 'calls/{}/{}'.format(nomap(self.get_name()), self.get_version())
CallsPath ==
  Key("calls") \o <<DELIMITER>> \o nomap(Key(args.name)) \o <<DELIMITER>> \o Key(args.version)

(* -------------------------------- state -------------------------------- *)

VARIABLES
  nsent,         \* number of request frames the peers have sent so far
  stream,        \* stream[r]: the multipart frame of request r
  inbox,         \* requests queued at the REP socket, not yet received
  repPending,    \* REP socket: the request whose reply is due (0: none)
  glet,          \* glet[r]: the greenlet running __process_request for r
  wpc,           \* wpc[r]: position of the pool worker of request r
  payload,       \* payload[r]: the unpacked command of worker r
  schema,        \* schema[r]: the action schema the Action of r resolved
  tobj,          \* tobj[r]: the TransportPayload object created for r
  rvobj,         \* rvobj[r]: the return-value Payload object created for r
  srvTransport,  \* ServiceServer.__transport: which request's object (0: None)
  srvReturn,     \* ServiceServer.__return_value: which request's object (0: None)
  outcome,       \* outcome[r]: how the handler of r ended
  handlerCalls,  \* handlerCalls[r]: times a handler was invoked for r
  errcb,         \* errcb[r]: exceptions the error callback was called with
  log,           \* LOG.exception records written by process_payload
  result,        \* result[r]: the AsyncResult of the pool task of r
  workq,         \* responses pushed to inproc://workers, not yet forwarded
  sent,          \* responses sent on the REP socket, in order
  registry,      \* the process-wide schema registry table
  metaIn,        \* SpecMeta: the result payload under test
  metaOut,       \* SpecMeta: what get_response_meta gave for it
  actTransport,  \* SpecAction: Action.__transport of the running handler
  actRuntime,    \* SpecAction: Action.__runtime_transport, the clone
  actSchema,     \* SpecAction: Action.__schema, the calling service's schema
  actAddress,    \* SpecAction: whether the registry holds the service address
  actLast,       \* SpecAction: the last call the handler made
  actSteps,      \* SpecAction: number of calls the handler has made
  fnIn,          \* SpecPath: the document, path, mappings and delimiter
  fnOut          \* SpecPath: the operation applied and what it gave

dvars == <<nsent, stream, inbox, repPending, glet, wpc, payload, schema, tobj,
           rvobj, srvTransport, srvReturn, outcome, handlerCalls, errcb,
           log, result, workq, sent, registry>>
avars == <<actTransport, actRuntime, actSchema, actAddress, actLast, actSteps>>
pvars == <<fnIn, fnOut>>
mvars == <<metaIn, metaOut, avars, pvars>>
vars == <<dvars, mvars>>

NoStream == <<>>
Pending == [state |-> "pending"]
Value(frames) == [state |-> "value", frames |-> frames]
Raised == [state |-> "exception"]
NoMeta == [state |-> "idle"]

DispatcherInit ==
  /\ nsent = 0
  /\ stream = [r \in Requests |-> NoStream]
  /\ inbox = <<>>
  /\ repPending = 0
  /\ glet = [r \in Requests |-> "none"]
  /\ wpc = [r \in Requests |-> "none"]
  /\ payload = [r \in Requests |-> EmptyPayload]
  /\ schema = [r \in Requests |-> "none"]
  /\ tobj = [r \in Requests |-> NoTransport]
  /\ rvobj = [r \in Requests |-> EmptyPayload]
  /\ srvTransport = 0
  /\ srvReturn = 0
  /\ outcome = [r \in Requests |-> NoOutcome]
  /\ handlerCalls = [r \in Requests |-> 0]
  /\ errcb = [r \in Requests |-> <<>>]
  /\ log = {}
  /\ result = [r \in Requests |-> Pending]
  /\ workq = <<>>
  /\ sent = <<>>
  /\ registry = EmptyTable

\* No Action under test and no path operation under test.
NoStep == [kind |-> "none"]
NoFn == [op |-> "none"]
ActionIdle ==
  /\ actTransport = EmptyDict
  /\ actRuntime = EmptyDict
  /\ actSchema = [found |-> FALSE, files |-> FALSE]
  /\ actAddress = FALSE
  /\ actLast = NoStep
  /\ actSteps = 0
PathIdle == fnIn = NoFn /\ fnOut = NoFn

Init ==
  DispatcherInit /\ metaIn = NoMeta /\ metaOut = NoMeta /\ ActionIdle /\ PathIdle

(* ------------------------- peers and the listener ---------------------- *)

\* A peer sends the next request frame; it waits in the REP socket's queue.
\* Nothing reads a queued frame before the listener receives it, so its
\* content is drawn on receipt.
ClientSend ==
  /\ nsent < MaxRequests
  /\ nsent' = nsent + 1
  /\ inbox' = Append(inbox, nsent + 1)
  /\ UNCHANGED <<stream, repPending, glet, wpc, payload, schema, tobj, rvobj,
                 srvTransport, srvReturn, outcome, handlerCalls, errcb,
                 log, result, workq, sent, registry, mvars>>

\* A REP socket polls readable only when no reply is due: it alternates
\* strictly between one recv and one send.
RepReadable == inbox # <<>> /\ repPending = 0

\* listen: the request socket polled POLLIN; the stream is received and
\* gevent.spawn starts __process_request, which hands the stream to the
\* thread pool and waits on the AsyncResult for at most `timeout`.
ListenRecv ==
  /\ RepReadable
  /\ LET r == Head(inbox)
     IN /\ \E f \in Streams(r) : stream' = [stream EXCEPT ![r] = f]
        /\ inbox' = Tail(inbox)
        /\ repPending' = r
        /\ glet' = [glet EXCEPT ![r] = "waiting"]
        /\ wpc' = [wpc EXCEPT ![r] = "queued"]
  /\ UNCHANGED <<nsent, payload, schema, tobj, rvobj, srvTransport,
                 srvReturn, outcome, handlerCalls, errcb, log, result,
                 workq, sent, registry, mvars>>

\* listen: the worker socket polled POLLIN; the response is sent on the
\* request socket, which routes it to the peer whose request was received
\* last.
ListenForward ==
  /\ workq # <<>>
  /\ repPending # 0
  /\ sent' = Append(sent, [to |-> repPending, from |-> Head(workq).from,
                           frames |-> Head(workq).frames])
  /\ workq' = Tail(workq)
  /\ repPending' = 0
  /\ UNCHANGED <<nsent, stream, inbox, glet, wpc, payload, schema, tobj,
                 rvobj, srvTransport, srvReturn, outcome, handlerCalls, errcb,
                 log, result, registry, mvars>>

(* ------------------------------ greenlets ------------------------------ *)

\* _send_response: PUSH the response frames to inproc://workers.
send_response(q, r, frames) == Append(q, [from |-> r, frames |-> frames])

\* The response __process_request sends when res.get returned or raised.
ResponseOf(res) ==
  IF res.state = "value" THEN res.frames
  ELSE create_error_response("Failed to handle request")

\* __process_request: res.get(timeout) returned the worker's response, or
\* re-raised what the worker raised.
GreenletResult(r) ==
  /\ glet[r] = "waiting"
  /\ result[r].state # "pending"
  /\ workq' = send_response(workq, r, ResponseOf(result[r]))
  /\ glet' = [glet EXCEPT ![r] = "replied"]
  /\ UNCHANGED <<nsent, stream, inbox, repPending, wpc, payload, schema, tobj,
                 rvobj, srvTransport, srvReturn, outcome, handlerCalls, errcb,
                 log, result, sent, registry, mvars>>

\* Mutant of GreenletTimeout: the timed-out response is sent but the greenlet
\* goes on waiting for the worker, whose result it will send as well.
GreenletTimeout_keepsWaiting(r) ==
  /\ glet[r] = "waiting"
  /\ result[r].state = "pending"
  /\ \A i \in 1..Len(workq) : workq[i].from # r
  /\ \A i \in 1..Len(sent) : sent[i].from # r
  /\ workq' = Append(workq, [from |-> r, frames |-> create_error_response(TimedOutMsg)])
  /\ UNCHANGED <<nsent, stream, inbox, repPending, glet, wpc, payload, schema,
                 tobj, rvobj, srvTransport, srvReturn, outcome, handlerCalls,
                 errcb, log, result, sent, registry, mvars>>

\* Mutant of GreenletTimeout: the timeout cancels the pool task.
GreenletTimeout_killsWorker(r) ==
  /\ glet[r] = "waiting"
  /\ result[r].state = "pending"
  /\ workq' = Append(workq, [from |-> r, frames |-> create_error_response(TimedOutMsg)])
  /\ glet' = [glet EXCEPT ![r] = "timedout"]
  /\ wpc' = [wpc EXCEPT ![r] = "done"]
  /\ UNCHANGED <<nsent, stream, inbox, repPending, payload, schema,
                 tobj, rvobj, srvTransport, srvReturn, outcome, handlerCalls,
                 errcb, log, result, sent, registry, mvars>>

\* __process_request: gevent.Timeout fired while the result was not ready.
\* The pool task is not cancelled: wpc[r] is left as it is.
GreenletTimeout(r) ==
  /\ glet[r] = "waiting"
  /\ result[r].state = "pending"
  /\ Cardinality({q \in Requests : glet[q] = "timedout"}) < MaxTimeouts
  /\ workq' = send_response(workq, r, create_error_response(TimedOutMsg))
  /\ glet' = [glet EXCEPT ![r] = "timedout"]
  /\ UNCHANGED <<nsent, stream, inbox, repPending, wpc, payload, schema, tobj,
                 rvobj, srvTransport, srvReturn, outcome, handlerCalls, errcb,
                 log, result, sent, registry, mvars>>

(* ---------------------------- pool workers ----------------------------- *)

\* The worker of request r ended: its AsyncResult holds res.
Finish(r, res) ==
  /\ result' = [result EXCEPT ![r] = res]
  /\ wpc' = [wpc EXCEPT ![r] = "done"]

\* __process_request_payload turned an exception of process_payload that is
\* no KatanaError into the 'Component failed' payload.
ComponentFailed == entity("error", ErrorPayload_new("Component failed", 0, ""))

\* Response of __process_request_stream for a payload p returned by
\* __process_request_payload: get_response_meta may raise.
StreamResult(p) ==
  IF get_response_meta_raises(p) THEN Raised ELSE Value(ResponseFrames(p))

\* __update_schema_registry: a mappings part that does not unpack is logged
\* and the registry is left as it was.
RegistryAfter(table, mappings) ==
  IF mappings.kind = "empty" THEN table
  ELSE IF CanUnpack(mappings) THEN update_registry(table, unpack(mappings))
  ELSE table

\* __process_request_stream up to the call of __process_request_payload.
WorkerReceive(r) ==
  /\ wpc[r] = "queued"
  /\ LET f == stream[r] IN
     IF Len(f) # 3
     THEN /\ Finish(r, Value(create_error_response("Failed to handle request")))
          /\ UNCHANGED <<registry, payload>>
     ELSE /\ registry' = RegistryAfter(registry, f[2])
          /\ IF ~CanDecodeUtf8(f[1])
             THEN Finish(r, Raised) /\ UNCHANGED payload
             ELSE IF decode_utf8(f[1]) \notin callbacks
             THEN /\ Finish(r, Value(create_error_response(InvalidActionMsg(decode_utf8(f[1])))))
                  /\ UNCHANGED payload
             ELSE IF ~CanUnpack(f[3])
             THEN /\ Finish(r, Value(create_error_response("Internal communication failed")))
                  /\ UNCHANGED payload
             ELSE /\ payload' = [payload EXCEPT ![r] = unpack(f[3])]
                  /\ wpc' = [wpc EXCEPT ![r] = "running"]
                  /\ UNCHANGED result
  /\ UNCHANGED <<nsent, stream, inbox, repPending, glet, schema, tobj, rvobj,
                 srvTransport, srvReturn, outcome, handlerCalls, errcb,
                 log, workq, sent, mvars>>

\* Action.__init__: the default return value by action schema.  Without a
\* resolved schema, or with one that declares a return value, 'return' is
\* set (to None or the type's default, written 0); otherwise the payload
\* stays empty.
InitialReturn(sch) == IF sch = "noreturn" THEN EmptyPayload ELSE ReturnPayload(0)

\* process_payload up to the handler call: the command check and
\* ServiceServer.create_component_instance, which stores the transport and
\* the return value of this request in the server object.
WorkerCreate(r) ==
  /\ wpc[r] = "running"
  /\ IF ~HasKey(payload[r], "command")
     THEN /\ Finish(r, StreamResult(entity("error",
                 ErrorPayload_new("Internal communication failed", 0, ""))))
          /\ UNCHANGED <<srvTransport, srvReturn, tobj, rvobj, schema>>
     ELSE LET t == payload[r].command.arguments.transport IN
          /\ srvTransport' = r
          /\ srvReturn' = r
          /\ tobj' = [tobj EXCEPT ![r] = t]
          /\ IF ~t.gateway
             THEN \* Action.__init__ raises KeyError on meta/gateway
                  /\ rvobj' = [rvobj EXCEPT ![r] = EmptyPayload]
                  /\ Finish(r, StreamResult(ComponentFailed))
                  /\ UNCHANGED schema
             ELSE /\ schema' = [schema EXCEPT ![r] = ActionSchema(registry)]
                  /\ rvobj' = [rvobj EXCEPT ![r] = InitialReturn(ActionSchema(registry))]
                  /\ wpc' = [wpc EXCEPT ![r] = "created"]
                  /\ UNCHANGED result
  /\ UNCHANGED <<nsent, stream, inbox, repPending, glet, payload, outcome,
                 handlerCalls, errcb, log, workq, sent, registry, mvars>>

\* Action.set_return raises UndefinedReturnValueError, a KatanaError, when
\* the action schema declares no return value.
UndefinedReturnValueError(action) ==
  [kind |-> "KatanaError",
   message |-> "Cannot set a return value in " \o component_title
                 \o " for action: \"" \o action \o "\"",
   code |-> 0, status |-> ""]

\* How the handler call ended, given what the handler set out to do.
Ended(r, o) ==
  IF o.kind = "return" /\ o.op = "set_return" /\ schema[r] = "noreturn"
  THEN UndefinedReturnValueError(decode_utf8(stream[r][1])) ELSE o

\* self.callbacks[action](component): the handler works on the transport and
\* the return value its own Action holds, then returns or raises.
WorkerCall(r) ==
  /\ wpc[r] = "created"
  /\ \E o \in Outcomes :
       /\ outcome' = [outcome EXCEPT ![r] = Ended(r, o)]
       /\ tobj' = IF o.kind = "return" /\ o.op = "set_download"
                  THEN [tobj EXCEPT ![r].body = r] ELSE tobj
       /\ rvobj' = IF Ended(r, o).kind = "return" /\ o.op = "set_return"
                   THEN [rvobj EXCEPT ![r] = ReturnPayload(r)] ELSE rvobj
  /\ handlerCalls' = [handlerCalls EXCEPT ![r] = @ + 1]
  /\ wpc' = [wpc EXCEPT ![r] = "called"]
  /\ UNCHANGED <<nsent, stream, inbox, repPending, glet, payload, schema,
                 srvTransport, srvReturn, errcb, log, result, workq,
                 sent, registry, mvars>>

\* ServiceServer.component_to_payload: the transport entity, under the
\* return value when one is set.  Both are read from the server object.
component_to_payload(rv, t) ==
  IF rv = EmptyPayload THEN entity("transport", t)
  ELSE rv @@ entity("transport", t)

\* Mutant of create_error_payload: the code and status of the raised error
\* are stored in the error entry as well.
create_error_payload_verbatim(exc, cmd) ==
  LET t == cmd.command.arguments.transport
  IN entity("transport",
            [t EXCEPT !.errors = Append(@, ErrorPayload_new(str(exc), exc.code, exc.status))])

\* ServiceServer.create_error_payload: the command's transport with
\* ErrorPayload.new(str(exc)) pushed to the component's errors.
create_error_payload(exc, cmd) ==
  LET t == cmd.command.arguments.transport
  IN entity("transport",
            [t EXCEPT !.errors = Append(@, ErrorPayload_new(str(exc), 0, ""))])

\* The payload process_payload builds from the handler's outcome.
HandlerPayload(r) ==
  CASE outcome[r].kind = "KatanaError" -> create_error_payload(outcome[r], payload[r])
    [] outcome[r].kind = "Exception" ->
         entity("error", ErrorPayload_new(str(outcome[r]), 0, ""))
    [] OTHER -> component_to_payload(rvobj[srvReturn], tobj[srvTransport])

\* Mutant of process_payload: what the error callback raises is not caught
\* in process_payload and reaches __process_request_payload.
process_payload_cbPropagates(r, raised) ==
  IF raised THEN ComponentFailed
  ELSE CommandResultPayload_new(payload[r].command.name, HandlerPayload(r))

\* What __process_request_payload returns once the handler has ended;
\* `raised` tells whether the error callback raised.  The bare except around
\* the callback swallows what it raises.
process_payload(r, raised) ==
  CommandResultPayload_new(payload[r].command.name, HandlerPayload(r))

\* `if error and self.error_callback`: the callback is registered and runs
\* when the handler raised.
CallbackRuns(r) == outcome[r].kind # "return"

\* process_payload after the handler call, then the rest of
\* __process_request_stream: response meta and the packed payload.
WorkerReply(r) ==
  /\ wpc[r] = "called"
  /\ \E raised \in (IF CallbackRuns(r) THEN BOOLEAN ELSE {FALSE}) :
       /\ errcb' = IF CallbackRuns(r)
                   THEN [errcb EXCEPT ![r] = Append(@, outcome[r])] ELSE errcb
       /\ log' = IF raised THEN log \cup {"Error callback failed"} ELSE log
       /\ Finish(r, StreamResult(process_payload(r, raised)))
  /\ UNCHANGED <<nsent, stream, inbox, repPending, glet, payload, schema, tobj,
                 rvobj, srvTransport, srvReturn, outcome, handlerCalls, workq,
                 sent, registry, mvars>>

(* ---------------------------- specification ---------------------------- *)

Next ==
  \/ ClientSend
  \/ ListenRecv
  \/ ListenForward
  \/ \E r \in Requests : GreenletResult(r)
  \/ \E r \in Requests : GreenletTimeout(r)
  \/ \E r \in Requests : WorkerReceive(r)
  \/ \E r \in Requests : WorkerCreate(r)
  \/ \E r \in Requests : WorkerCall(r)
  \/ \E r \in Requests : WorkerReply(r)

Spec == Init /\ [][Next]_vars

(* ------------------- get_response_meta on its own ---------------------- *)

\* Call targets used to build result transports.
Targets == {Target("posts", "2.0", "list"), Target("mail", "1.1", "send")}

\* Sequences over S of length at most n.
RECURSIVE SeqsUpTo(_, _)
SeqsUpTo(S, n) ==
  IF n = 0 THEN {<<>>}
  ELSE SeqsUpTo(S, n - 1)
         \cup {Append(q, x) : q \in {p \in SeqsUpTo(S, n - 1) : Len(p) = n - 1}, x \in S}

\* Result transports a handler can leave behind: with or without a
\* download, transactions, calls of this component, calls of other
\* services, files, and gateway addresses.
MetaTransports ==
  [id : {1}, gateway : BOOLEAN, body : {0, 1}, transactions : {0, 1},
   calls : SeqsUpTo(Targets, MaxCalls), othercalls : {0, 1},
   files : SUBSET Targets, errors : {<<>>}]

\* Payloads __process_request_payload can return: a command reply with a
\* transport, with or without a return value, or a bare error entity.
MetaPayloads ==
  {CommandResultPayload_new("cmd", entity("transport", t)) : t \in MetaTransports}
    \cup {CommandResultPayload_new("cmd", ReturnPayload(0) @@ entity("transport", t)) :
            t \in {u \in MetaTransports : u.calls = <<>> /\ u.files = {}}}
    \cup {ComponentFailed,
          CommandResultPayload_new("cmd", entity("error", ErrorPayload_new("boom", 0, "")))}

MetaInit ==
  /\ DispatcherInit
  /\ metaIn \in {[state |-> "payload", payload |-> p] : p \in MetaPayloads}
  /\ metaOut = NoMeta
  /\ ActionIdle
  /\ PathIdle

\* The last line of __process_request_stream applied to the payload.
MetaApply ==
  /\ metaIn.state = "payload"
  /\ metaOut = NoMeta
  /\ metaOut' = StreamResult(metaIn.payload)
  /\ UNCHANGED <<metaIn, dvars, avars, pvars>>

MetaNext == MetaApply

SpecMeta == MetaInit /\ [][MetaNext]_vars

(* ------------------ the calls a handler makes on its own ---------------- *)

\* Number of calls the handler makes through its Action.
MaxActionCalls == 2

\* Api.get_service_schema for the calling service in a registry table:
\* not found when the schema cannot be resolved (Action.__schema is None).
ServiceSchema(table) ==
  IF \E e \in table : e.service = args.name /\ e.version = args.version
  THEN [found |-> TRUE,
        files |-> (CHOOSE e \in table :
                     e.service = args.name /\ e.version = args.version).files]
  ELSE [found |-> FALSE, files |-> FALSE]

\* meta of the transport: the gateway addresses (internal, public) and the
\* nesting level.
PublicGateway == "http://1.2.3.4:80"
TransportMeta(level) ==
  DictOf((Key("g") :> ListOf(<<StrOf("ktp://10.0.0.1:77"), StrOf(PublicGateway)>>))
         @@ (Key("l") :> IntOf(level)))

\* 'files|{}|{}|{}|{}'.format(gateway[1], nomap(service), version, nomap(action))
FilesPath ==
  Key("files") \o <<"|">> \o Key(PublicGateway) \o <<"|">> \o nomap(Key(Callee.service))
    \o <<"|">> \o Key(Callee.version) \o <<"|">> \o nomap(Key(Callee.action))

\* Where the entities stored by `service` are kept in the data section.
DataPath(service, version) ==
  Key("data") \o <<"|">> \o Key(PublicGateway) \o <<"|">> \o nomap(Key(service))
    \o <<"|">> \o Key(version) \o <<"|">> \o nomap(Key("list"))
Entity(i) == DictOf(Key("id") :> IntOf(i))

\* Transports an Action is constructed with: only meta; with a call already
\* registered for the calling service; with that call and stored entities.
TransportNew == DictOf(Key("m") :> TransportMeta(1))
TransportWithCall ==
  push(TransportNew, CallsPath, DeferredCallPayload, FIELD_MAPPINGS, DELIMITER).doc
TransportWithData ==
  set_path(TransportWithCall, DataPath(args.name, args.version),
           ListOf(<<Entity(1)>>), FIELD_MAPPINGS, "|").doc
ActionTransports == {TransportNew, TransportWithCall, TransportWithData}

\* What runtime_call gives for the transport it sent: the callee's
\* transport, or an error.  The callee returns what it was sent, or has
\* registered a call, or has stored an entity of its own, or has changed
\* meta and returns empty containers for sections it did not use.
CalleeReturned(transport) == [st |-> "ok", transport |-> transport]
RuntimeCallError == [st |-> "RuntimeCallError", transport |-> EmptyDict]
CalleeReplies(runtime) ==
  {CalleeReturned(runtime),
   CalleeReturned(push(runtime, CallsPath, RemoteCallPayload, FIELD_MAPPINGS, DELIMITER).doc),
   CalleeReturned(set_path(runtime, DataPath(Callee.service, Callee.version),
                           ListOf(<<Entity(2)>>), FIELD_MAPPINGS, "|").doc),
   CalleeReturned(SetItem(SetItem(SetItem(runtime, Key("m"), TransportMeta(2)),
                                  Key("e"), EmptyDict),
                          Key("l"), EmptyDict)),
   RuntimeCallError}

\* What a call raised: nothing, or an exception with its message.
NoError == [type |-> "", message |-> ""]
ApiError(msg) == [type |-> "ApiError", message |-> msg]
NoFileServerError(service, version) ==
  [type |-> "NoFileServerError",
   message |-> "File server not configured: \"" \o service \o "\" (" \o version \o ")"]

\* Action.__files_to_payload: the payloads of the files, or the error.
\* A service whose schema cannot be resolved counts as having a file server.
RECURSIVE files_to_payload(_, _)
files_to_payload(files, service_schema) ==
  LET has_file_server == IF service_schema.found THEN service_schema.files ELSE TRUE
  IN IF files = <<>> THEN [raised |-> NoError, list |-> <<>>]
     ELSE IF Head(files).local /\ ~has_file_server
     THEN [raised |-> NoFileServerError(args.name, args.version), list |-> <<>>]
     ELSE LET r == files_to_payload(Tail(files), service_schema)
          IN [raised |-> r.raised,
              list |-> IF r.raised = NoError
                       THEN <<file_to_payload(Head(files))>> \o r.list ELSE <<>>]

\* The check of the files in Action.call: remote files are passed over, the
\* first local file decides.
RECURSIVE call_files_supported(_, _)
call_files_supported(files, service_schema) ==
  IF files = <<>> THEN TRUE
  ELSE IF ~Head(files).local THEN call_files_supported(Tail(files), service_schema)
  ELSE service_schema.found /\ service_schema.files

\* Mutant of merge_back: a section is merged whenever the callee's
\* transport has it, empty or not.
RECURSIVE merge_back_mergesEmpty(_, _, _)
merge_back_mergesEmpty(own, callee, paths) ==
  IF paths = <<>> THEN [st |-> "ok", doc |-> own]
  ELSE LET g == get_path(callee, Head(paths), FIELD_MAPPINGS, DELIMITER)
       IN IF g.st = "ok"
          THEN LET m == LookupDict_merge(own, Head(paths), g.val,
                                         FIELD_MAPPINGS, DELIMITER)
               IN IF m.st = "ok" THEN merge_back_mergesEmpty(m.doc, callee, Tail(paths))
                  ELSE m
          ELSE merge_back_mergesEmpty(own, callee, Tail(paths))

\* The end of Action.call: each mergeable section of the callee's transport
\* that holds something is merged into the caller's transport.
RECURSIVE merge_back(_, _, _)
merge_back(own, callee, paths) ==
  IF paths = <<>> THEN [st |-> "ok", doc |-> own]
  ELSE LET g == get_path(callee, Head(paths), FIELD_MAPPINGS, DELIMITER)
       IN IF g.st = "ok" /\ Truthy(g.val)
          THEN LET m == LookupDict_merge(own, Head(paths), g.val,
                                         FIELD_MAPPINGS, DELIMITER)
               IN IF m.st = "ok" THEN merge_back(m.doc, callee, Tail(paths))
                  ELSE m
          ELSE merge_back(own, callee, Tail(paths))

\* Action.call: [raised, doc] with doc the caller's transport afterwards.
call(own, service_schema, address, files, reply) ==
  IF ~address
  THEN [raised |-> ApiError("Failed to get address for Service: " \o component_title),
        doc |-> own]
  ELSE IF ~call_files_supported(files, service_schema)
  THEN [raised |-> NoFileServerError(args.name, args.version), doc |-> own]
  ELSE IF reply.st # "ok"
  THEN [raised |-> [type |-> reply.st, message |-> ""], doc |-> own]
  ELSE LET m == merge_back(own, reply.transport, TRANSPORT_MERGEABLE_PATHS)
       IN [raised |-> IF m.st = "ok" THEN NoError ELSE [type |-> m.st, message |-> ""],
           doc |-> m.doc]

\* Mutant of register_call: the payload of the call replaces the calls
\* registered before.
register_call_overwrites(own, service_schema, files, call_payload) ==
  LET fp == files_to_payload(files, service_schema)
      withFiles == IF files = <<>> THEN [st |-> "ok", doc |-> own]
                   ELSE set_path(own, FilesPath, ListOf(fp.list), FIELD_MAPPINGS, "|")
      pushed == set_path(withFiles.doc, CallsPath, ListOf(<<call_payload>>),
                         FIELD_MAPPINGS, DELIMITER)
  IN IF files # <<>> /\ fp.raised # NoError THEN [raised |-> fp.raised, doc |-> own]
     ELSE IF withFiles.st # "ok"
     THEN [raised |-> [type |-> withFiles.st, message |-> ""], doc |-> own]
     ELSE [raised |-> IF pushed.st = "ok" THEN NoError
                      ELSE [type |-> pushed.st, message |-> ""],
           doc |-> pushed.doc]

\* The part defer_call and remote_call share: the files are set in the
\* transport, then the payload of the call is pushed to its calls.
register_call(own, service_schema, files, call_payload) ==
  LET fp == files_to_payload(files, service_schema)
      withFiles == IF files = <<>> THEN [st |-> "ok", doc |-> own]
                   ELSE set_path(own, FilesPath, ListOf(fp.list), FIELD_MAPPINGS, "|")
      pushed == push(withFiles.doc, CallsPath, call_payload, FIELD_MAPPINGS, DELIMITER)
  IN IF files # <<>> /\ fp.raised # NoError THEN [raised |-> fp.raised, doc |-> own]
     ELSE IF withFiles.st # "ok"
     THEN [raised |-> [type |-> withFiles.st, message |-> ""], doc |-> own]
     ELSE [raised |-> IF pushed.st = "ok" THEN NoError
                      ELSE [type |-> pushed.st, message |-> ""],
           doc |-> pushed.doc]

\* Action.defer_call
defer_call(own, service_schema, files) ==
  register_call(own, service_schema, files, DeferredCallPayload)

\* Action.remote_call
remote_call(own, service_schema, files) ==
  register_call(own, service_schema, files, RemoteCallPayload)

\* Action.__init__: the transport of the request, its clone for run-time
\* calls, and the schema resolved for the calling service.
ActionInit ==
  /\ DispatcherInit
  /\ metaIn = NoMeta /\ metaOut = NoMeta
  /\ PathIdle
  /\ actTransport \in ActionTransports
  /\ actRuntime = actTransport
  /\ actSchema \in {ServiceSchema(t) : t \in {EmptyTable, TableA, TableB}}
  /\ actAddress \in BOOLEAN
  /\ actLast = NoStep
  /\ actSteps = 0

\* What is recorded of a call the handler made.
Step(kind, files, reply, r) ==
  [kind |-> kind, files |-> files, reply |-> reply, before |-> actTransport,
   raised |-> r.raised]

\* The handler makes an immediate call; the callee answers with `reply`.
ActionCall ==
  \E files \in FileLists : \E reply \in CalleeReplies(actRuntime) :
    LET r == call(actTransport, actSchema, actAddress, files, reply)
    IN /\ actSteps < MaxActionCalls
       /\ actTransport' = r.doc
       /\ actLast' = Step("call", files, reply, r)
       /\ actSteps' = actSteps + 1
       /\ UNCHANGED <<actRuntime, actSchema, actAddress, dvars, metaIn, metaOut, pvars>>

\* The handler registers a deferred call.
ActionDeferCall ==
  \E files \in FileLists :
    LET r == defer_call(actTransport, actSchema, files)
    IN /\ actSteps < MaxActionCalls
       /\ actTransport' = r.doc
       /\ actLast' = Step("defer_call", files, RuntimeCallError, r)
       /\ actSteps' = actSteps + 1
       /\ UNCHANGED <<actRuntime, actSchema, actAddress, dvars, metaIn, metaOut, pvars>>

\* The handler registers a call to a remote gateway.
ActionRemoteCall ==
  \E files \in FileLists :
    LET r == remote_call(actTransport, actSchema, files)
    IN /\ actSteps < MaxActionCalls
       /\ actTransport' = r.doc
       /\ actLast' = Step("remote_call", files, RuntimeCallError, r)
       /\ actSteps' = actSteps + 1
       /\ UNCHANGED <<actRuntime, actSchema, actAddress, dvars, metaIn, metaOut, pvars>>

ActionNext == ActionCall \/ ActionDeferCall \/ ActionRemoteCall

SpecAction == ActionInit /\ [][ActionNext]_vars

(* ------------------- the path operations on their own ------------------ *)

\* Deepest nesting of the documents, and most segments of the paths.
MaxDepth == 3
MaxSegs == 3

\* Keys of the documents: a long name, its short code, and a sibling.
PathKeys == {Key("foo"), Key("f")}
Sibling == Key("keep")

\* The mapping tables: none, or foo -> f.
MappingTables == {NoMappings, Key("foo") :> Key("f")}
Delimiters == {"/", "|"}

\* Documents nested up to n deep: a scalar, a list, or a dict of one key
\* (with or without the sibling key) whose value is nested one less.
RECURSIVE Values(_)
Values(n) ==
  IF n = 0 THEN {IntOf(1), ListOf(<<IntOf(1)>>)}
  ELSE Values(0) \cup {EmptyDict}
       \cup {DictOf(k :> x) : k \in PathKeys, x \in Values(n - 1)}
       \cup {DictOf((k :> x) @@ (Sibling :> IntOf(2))) : k \in PathKeys, x \in Values(n - 1)}
Documents == {x \in Values(MaxDepth) : IsDict(x)}

\* Paths of up to n segments joined by the delimiter; a segment is a key
\* or a key written with a leading '!'.
Segments == PathKeys \cup {nomap(Key("foo"))}
RECURSIVE Paths(_, _)
Paths(n, delimiter) ==
  IF n = 1 THEN Segments
  ELSE Paths(n - 1, delimiter)
       \cup {seg \o <<delimiter>> \o rest : seg \in Segments, rest \in Paths(n - 1, delimiter)}

\* The value given to set and push.
NewValue == IntOf(7)

PathInit ==
  /\ DispatcherInit
  /\ metaIn = NoMeta /\ metaOut = NoMeta
  /\ ActionIdle
  /\ \E doc \in Documents, mappings \in MappingTables, delimiter \in Delimiters :
       \E path \in Paths(MaxSegs, delimiter) :
         fnIn = [op |-> "input", doc |-> doc, path |-> path,
                 mappings |-> mappings, delimiter |-> delimiter]
  /\ fnOut = NoFn

\* What an operation gave: how it ended, the value it returned (get) and
\* the document afterwards.
Outcome(op, st, val, doc) == [op |-> op, st |-> st, val |-> val, doc |-> doc]

\* get_path(doc, path, mappings=..., delimiter=...) with no default
PathGet ==
  /\ fnOut = NoFn
  /\ LET r == get_path(fnIn.doc, fnIn.path, fnIn.mappings, fnIn.delimiter)
     IN fnOut' = Outcome("get", r.st, IF r.st = "ok" THEN r.val ELSE EmptyDict, fnIn.doc)
  /\ UNCHANGED <<fnIn, dvars, metaIn, metaOut, avars>>

\* set_path(doc, path, value, ...)
PathSet ==
  /\ fnOut = NoFn
  /\ LET r == set_path(fnIn.doc, fnIn.path, NewValue, fnIn.mappings, fnIn.delimiter)
     IN fnOut' = Outcome("set", r.st, EmptyDict, r.doc)
  /\ UNCHANGED <<fnIn, dvars, metaIn, metaOut, avars>>

\* delete_path(doc, path, ...)
PathDelete ==
  /\ fnOut = NoFn
  /\ LET r == delete_path(fnIn.doc, fnIn.path, fnIn.mappings, fnIn.delimiter)
     IN fnOut' = Outcome("delete", r.st, EmptyDict, r.doc)
  /\ UNCHANGED <<fnIn, dvars, metaIn, metaOut, avars>>

\* LookupDict(doc).push(path, value, ...)
PathPush ==
  /\ fnOut = NoFn
  /\ LET r == push(fnIn.doc, fnIn.path, NewValue, fnIn.mappings, fnIn.delimiter)
     IN fnOut' = Outcome("push", r.st, EmptyDict, r.doc)
  /\ UNCHANGED <<fnIn, dvars, metaIn, metaOut, avars>>

PathNext == PathGet \/ PathSet \/ PathDelete \/ PathPush

SpecPath == PathInit /\ [][PathNext]_vars

(* ------------------- paths with empty segments ------------------------- *)

\* Paths with an empty segment: a path with the delimiter put in front of
\* it, after it, or doubled after its first segment.
DoubledAt(path, delimiter) ==
  LET i == FindDelim(path, delimiter)
  IN IF i = 0 THEN path \o <<delimiter>>
     ELSE SubSeq(path, 1, i) \o <<delimiter>> \o SubSeq(path, i + 1, Len(path))
EmptySegmentPaths(delimiter) ==
  UNION {{<<delimiter>> \o p, p \o <<delimiter>>, DoubledAt(p, delimiter)} :
           p \in Paths(MaxSegs - 1, delimiter)}

\* The path with its empty segments removed.
RECURSIVE JoinParts(_, _)
JoinParts(parts, delimiter) ==
  IF parts = <<>> THEN <<>>
  ELSE IF Len(parts) = 1 THEN Head(parts)
  ELSE Head(parts) \o <<delimiter>> \o JoinParts(Tail(parts), delimiter)
WithoutEmpty(path, delimiter) ==
  JoinParts(SelectSeq(split(path, delimiter), LAMBDA part : part # <<>>), delimiter)

EmptySegInit ==
  /\ DispatcherInit
  /\ metaIn = NoMeta /\ metaOut = NoMeta
  /\ ActionIdle
  /\ \E doc \in Documents, mappings \in MappingTables, delimiter \in Delimiters :
       \E path \in EmptySegmentPaths(delimiter) :
         fnIn = [op |-> "input", doc |-> doc, path |-> path,
                 mappings |-> mappings, delimiter |-> delimiter]
  /\ fnOut = NoFn

\* LookupDict(doc).path_exists(path, ...): get with the KeyError caught.
PathExists ==
  /\ fnOut = NoFn
  /\ LET r == get_path(fnIn.doc, fnIn.path, fnIn.mappings, fnIn.delimiter)
     IN fnOut' = Outcome("exists",
                         IF r.st = "ok" THEN "True"
                         ELSE IF r.st = "KeyError" THEN "False" ELSE r.st,
                         EmptyDict, fnIn.doc)
  /\ UNCHANGED <<fnIn, dvars, metaIn, metaOut, avars>>

EmptySegNext == PathGet \/ PathSet \/ PathDelete \/ PathPush \/ PathExists

SpecEmptySeg == EmptySegInit /\ [][EmptySegNext]_vars

(* --------------------------- merge on its own -------------------------- *)

\* The source documents: the documents with every number raised by ten, so
\* that a value of the source is told from a value of the destination.
RECURSIVE Shifted(_)
Shifted(x) ==
  CASE IsDict(x) -> DictOf([k \in DOMAIN x.d |-> Shifted(x.d[k])])
    [] IsList(x) -> ListOf([i \in DOMAIN x.l |-> Shifted(x.l[i])])
    [] OTHER -> IntOf(x.n + 10)
MergeDocuments == {x \in Values(MaxDepth - 1) : IsDict(x)}

MergeInit ==
  /\ DispatcherInit
  /\ metaIn = NoMeta /\ metaOut = NoMeta
  /\ ActionIdle
  /\ \E source \in MergeDocuments, to_value \in MergeDocuments,
        mappings \in MappingTables, lists \in BOOLEAN :
       fnIn = [op |-> "input", from_value |-> Shifted(source), to_value |-> to_value,
               mappings |-> mappings, lists |-> lists]
  /\ fnOut = NoFn

\* merge(from_value, to_value, mappings=..., lists=...)
MergeApply ==
  /\ fnOut = NoFn
  /\ LET r == merge(fnIn.from_value, fnIn.to_value, fnIn.mappings, fnIn.lists)
     IN fnOut' = Outcome("merge", r.st, EmptyDict, r.doc)
  /\ UNCHANGED <<fnIn, dvars, metaIn, metaOut, avars>>

MergeNext == MergeApply

SpecMerge == MergeInit /\ [][MergeNext]_vars

(* ------------------------- a series of pushes -------------------------- *)

\* Most pushes of one run, and the values pushed.
MaxPushes == 2
PushValues == {IntOf(7), IntOf(8)}

PushInit ==
  /\ DispatcherInit
  /\ metaIn = NoMeta /\ metaOut = NoMeta
  /\ ActionIdle
  /\ \E doc \in MergeDocuments, mappings \in MappingTables, delimiter \in Delimiters :
       \E path \in Paths(MaxSegs - 1, delimiter) :
         fnIn = [op |-> "input", doc |-> doc, path |-> path,
                 mappings |-> mappings, delimiter |-> delimiter]
  /\ fnOut = NoFn

\* The document of the LookupDict now, and the values pushed so far.
PushDoc == IF fnOut.op = "none" THEN fnIn.doc ELSE fnOut.doc
Pushed == IF fnOut.op = "none" THEN <<>> ELSE fnOut.val.l

\* lookup.push(path, value, ...) on the same LookupDict, again and again
\* until one push raises.
PushAgain ==
  /\ IF fnOut.op = "none" THEN TRUE ELSE fnOut.st # "TypeError"
  /\ Len(Pushed) < MaxPushes
  /\ \E value \in PushValues :
       LET r == push(PushDoc, fnIn.path, value, fnIn.mappings, fnIn.delimiter)
       IN fnOut' = Outcome("push", r.st,
                           ListOf(IF r.st = "ok" THEN Append(Pushed, value) ELSE Pushed),
                           r.doc)
  /\ UNCHANGED <<fnIn, dvars, metaIn, metaOut, avars>>

PushNext == PushAgain

SpecPush == PushInit /\ [][PushNext]_vars

(* ----------------------- LookupDict.get defaults ----------------------- *)

\* utils.EMPTY: the marker for "no default given".
EMPTY == [t |-> "empty", d |-> <<>>, l |-> <<>>, n |-> 0, s |-> ""]

\* utils.get_path with a default: the default is returned when the lookup
\* ends in KeyError and the default is not EMPTY; any other error passes.
get_path_default(item, path, default, mappings, delimiter) ==
  LET r == get_path(item, path, mappings, delimiter)
  IN IF r.st = "KeyError" /\ default # EMPTY
     THEN [st |-> "ok", val |-> default]
     ELSE r

\* LookupDict.get: without a default in the call, the one registered for
\* the path string with set_defaults is passed on to get_path.
LookupDict_get(item, path, default, defaults, mappings, delimiter) ==
  get_path_default(item, path,
                   IF default = EMPTY
                   THEN IF path \in DOMAIN defaults THEN defaults[path] ELSE EMPTY
                   ELSE default,
                   mappings, delimiter)

\* The default passed in a call, and the one registered for a path.
CallDefault == IntOf(5)
RegisteredDefault == IntOf(6)

GetInit ==
  /\ DispatcherInit
  /\ metaIn = NoMeta /\ metaOut = NoMeta
  /\ ActionIdle
  /\ \E doc \in MergeDocuments, mappings \in MappingTables, delimiter \in Delimiters :
       \E path \in Paths(MaxSegs - 1, delimiter), other \in Paths(1, delimiter),
          default \in {EMPTY, CallDefault} :
         \E defaults \in {<<>>, path :> RegisteredDefault, other :> RegisteredDefault} :
           fnIn = [op |-> "input", doc |-> doc, path |-> path, mappings |-> mappings,
                   delimiter |-> delimiter, default |-> default, defaults |-> defaults]
  /\ fnOut = NoFn

\* lookup.set_defaults(defaults); lookup.get(path, default, delimiter)
GetWithDefault ==
  /\ fnOut = NoFn
  /\ LET r == LookupDict_get(fnIn.doc, fnIn.path, fnIn.default, fnIn.defaults,
                             fnIn.mappings, fnIn.delimiter)
     IN fnOut' = Outcome("get", r.st, IF r.st = "ok" THEN r.val ELSE EMPTY, fnIn.doc)
  /\ UNCHANGED <<fnIn, dvars, metaIn, metaOut, avars>>

GetNext == GetWithDefault

SpecGet == GetInit /\ [][GetNext]_vars

(* ----------------------- serialization.py on its own ------------------- *)

\* Values of the custom types, next to dicts, lists, ints and strings.  A
\* string whose characters matter is spelled: its l holds one one-character
\* string per character.  A Decimal is held as the characters of str(obj),
\* a date as year, month, day, a datetime as the date followed by hour,
\* minute, second, microsecond.
NoneValue == [t |-> "none", d |-> <<>>, l |-> <<>>, n |-> 0, s |-> ""]
Text(q) == [t |-> "str", d |-> <<>>, l |-> [i \in DOMAIN q |-> StrOf(q[i])], n |-> 0, s |-> ""]
Chars(x) == [i \in DOMAIN x.l |-> x.l[i].s]
DecimalOf(q) == [t |-> "decimal", d |-> <<>>, l |-> Text(q).l, n |-> 0, s |-> ""]
DateOf(y, m, day) ==
  [t |-> "date", d |-> <<>>, l |-> <<IntOf(y), IntOf(m), IntOf(day)>>, n |-> 0, s |-> ""]
DatetimeOf(y, m, day, hh, mm, ss, us) ==
  [t |-> "datetime", d |-> <<>>,
   l |-> <<IntOf(y), IntOf(m), IntOf(day), IntOf(hh), IntOf(mm), IntOf(ss), IntOf(us)>>,
   n |-> 0, s |-> ""]
StructTimeOf(hh, mm) ==
  [t |-> "struct_time", d |-> <<>>, l |-> <<IntOf(hh), IntOf(mm)>>, n |-> 0, s |-> ""]
IsStr(x) == x.t = "str"

\* Decimal digits: a number written in `width` digits, and read back.
DigitChars == {"0", "1", "2", "3", "4", "5", "6", "7", "8", "9"}
DigitOf(c) == CHOOSE n \in 0..9 : ToString(n) = c
RECURSIVE Digits(_, _)
Digits(n, width) ==
  IF width = 0 THEN <<>> ELSE Digits(n \div 10, width - 1) \o <<ToString(n % 10)>>
RECURSIVE Num(_)
Num(q) == IF q = <<>> THEN 0 ELSE (Num(SubSeq(q, 1, Len(q) - 1)) * 10) + DigitOf(q[Len(q)])
AllDigits(q) == \A i \in DOMAIN q : q[i] \in DigitChars
IsNumber(q, widths) == Len(q) \in widths /\ AllDigits(q)

\* separator.join(parts) for parts that are character sequences.
RECURSIVE Join(_, _)
Join(parts, separator) ==
  IF parts = <<>> THEN <<>>
  ELSE IF Len(parts) = 1 THEN Head(parts)
  ELSE Head(parts) \o <<separator>> \o Join(Tail(parts), separator)

\* decimal.Decimal(string) for plain literals: an optional sign, digits
\* with at most one point.  IsDecimalLiteral is whether the constructor
\* accepts the string; the value is held in the form str() prints.
Unsigned(q) == IF q # <<>> /\ Head(q) \in {"-", "+"} THEN Tail(q) ELSE q
IsDecimalLiteral(q) ==
  LET parts == split(Unsigned(q), ".")
  IN /\ Len(parts) <= 2
     /\ \A i \in DOMAIN parts : AllDigits(parts[i])
     /\ \E i \in DOMAIN parts : parts[i] # <<>>
Decimal(q) ==
  LET parts == split(Unsigned(q), ".")
      whole == IF parts[1] = <<>> THEN <<"0">> ELSE parts[1]
      sign == IF q # <<>> /\ Head(q) = "-" THEN <<"-">> ELSE <<>>
  IN DecimalOf(sign \o whole \o
               (IF Len(parts) = 2 /\ parts[2] # <<>> THEN <<".">> \o parts[2] ELSE <<>>))

\* Days of a month (1900 is the only year strptime gives without being told).
IsLeap(y) == ((y % 4) = 0 /\ (y % 100) # 0) \/ (y % 400) = 0
DaysIn(y, m) ==
  IF m = 2 THEN (IF IsLeap(y) THEN 29 ELSE 28)
  ELSE IF m \in {4, 6, 9, 11} THEN 30 ELSE 31

\* obj.strftime('%Y-%m-%d')
strftime_date(obj) ==
  Digits(obj.l[1].n, 4) \o <<"-">> \o Digits(obj.l[2].n, 2) \o <<"-">> \o Digits(obj.l[3].n, 2)

\* datetime.strptime(string, '%Y-%m-%d'): [ok, y, m, day]; the year has four
\* digits, month and day one or two.
strptime_date(q) ==
  LET parts == split(q, "-")
  IN IF /\ Len(parts) = 3
        /\ IsNumber(parts[1], {4}) /\ IsNumber(parts[2], {1, 2}) /\ IsNumber(parts[3], {1, 2})
        /\ Num(parts[1]) >= 1
        /\ Num(parts[2]) \in 1..12
        /\ Num(parts[3]) \in 1..DaysIn(Num(parts[1]), Num(parts[2]))
     THEN [ok |-> TRUE, y |-> Num(parts[1]), m |-> Num(parts[2]), day |-> Num(parts[3])]
     ELSE [ok |-> FALSE, y |-> 0, m |-> 0, day |-> 0]

\* utils.DATE_FORMAT = "%Y-%m-%dT%H:%M:%S.%f+00:00"
UtcSuffix == <<"+", "0", "0", ":", "0", "0">>

\* utils.date_to_str: None for a falsy argument (a datetime never is).
date_to_str(obj) ==
  strftime_date(obj) \o <<"T">> \o Digits(obj.l[4].n, 2) \o <<":">> \o Digits(obj.l[5].n, 2)
    \o <<":">> \o Digits(obj.l[6].n, 2) \o <<".">> \o Digits(obj.l[7].n, 6) \o UtcSuffix

\* datetime.strptime(string, DATE_FORMAT): [ok, val].  %f takes one to six
\* digits and pads them on the right.
RECURSIVE PadRight(_, _)
PadRight(q, width) == IF Len(q) >= width THEN q ELSE PadRight(q \o <<"0">>, width)
strptime_datetime(q) ==
  LET halves == split(q, "T")
      date == strptime_date(halves[1])
      clock == IF Len(halves) = 2 THEN split(halves[2], ".") ELSE <<>>
      hms == IF Len(clock) = 2 THEN split(clock[1], ":") ELSE <<>>
      frac == IF Len(clock) = 2 /\ Len(clock[2]) > Len(UtcSuffix)
              THEN SubSeq(clock[2], 1, Len(clock[2]) - Len(UtcSuffix)) ELSE <<>>
  IN IF /\ Len(halves) = 2 /\ date.ok /\ Len(hms) = 3
        /\ \A i \in 1..3 : IsNumber(hms[i], {1, 2})
        /\ Num(hms[1]) <= 23 /\ Num(hms[2]) <= 59 /\ Num(hms[3]) <= 61
        /\ IsNumber(frac, 1..6)
        /\ clock[2] = frac \o UtcSuffix
     THEN [ok |-> TRUE,
           val |-> DatetimeOf(date.y, date.m, date.day, Num(hms[1]), Num(hms[2]),
                              Num(hms[3]), Num(PadRight(frac, 6)))]
     ELSE [ok |-> FALSE, val |-> NoneValue]

\* utils.str_to_date: None for a falsy value, else strptime (which raises
\* on a string of another format, and TypeError on a non-string).
str_to_date(value) ==
  IF ~Truthy(value) THEN [ok |-> TRUE, val |-> NoneValue]
  ELSE IF ~IsStr(value) THEN [ok |-> FALSE, val |-> NoneValue]
  ELSE strptime_datetime(Chars(value))

\* The marker of a custom type: ['type', name, value].
Marker(name, value) == ListOf(<<StrOf("type"), StrOf(name), value>>)

\* serialization.encode: the marker of a Decimal, datetime, date or
\* struct_time; TypeError (here None with ok FALSE) for anything else.
encode(obj) ==
  CASE obj.t = "decimal" ->
         LET parts == split(Chars(obj), ".")
         IN [ok |-> TRUE,
             val |-> Marker("decimal", ListOf([i \in DOMAIN parts |-> Text(parts[i])]))]
    [] obj.t = "datetime" -> [ok |-> TRUE, val |-> Marker("datetime", Text(date_to_str(obj)))]
    [] obj.t = "date" -> [ok |-> TRUE, val |-> Marker("date", Text(strftime_date(obj)))]
    [] obj.t = "struct_time" ->
         [ok |-> TRUE,
          val |-> Marker("time", Text(Digits(obj.l[1].n, 2) \o <<":">> \o Digits(obj.l[2].n, 2)))]
    [] OTHER -> [ok |-> FALSE, val |-> NoneValue]

\* '.'.join(value): the strings of a list or the characters of a string,
\* joined; TypeError for a list with a non-string and for a number or None.
CanJoin(value) ==
  \/ IsStr(value)
  \/ IsList(value) /\ \A i \in DOMAIN value.l : IsStr(value.l[i])
Joined(value) ==
  IF IsStr(value) THEN Join([i \in DOMAIN value.l |-> <<value.l[i].s>>], ".")
  ELSE Join([i \in DOMAIN value.l |-> Chars(value.l[i])], ".")

\* serialization.decode, the list hook: a list of three items that starts
\* with 'type' is decoded by its type name; any exception gives None; a
\* type name that matches no branch leaves the list as it is.
decode(data) ==
  IF Len(data.l) = 3 /\ data.l[1] = StrOf("type")
  THEN LET data_type == data.l[2]
           value == data.l[3]
       IN CASE data_type = StrOf("decimal") ->
                 IF CanJoin(value) /\ IsDecimalLiteral(Joined(value))
                 THEN Decimal(Joined(value)) ELSE NoneValue
            [] data_type = StrOf("datetime") -> str_to_date(value).val
            [] data_type = StrOf("date") ->
                 IF IsStr(value) /\ strptime_date(Chars(value)).ok
                 THEN LET p == strptime_date(Chars(value))
                      IN DatetimeOf(p.y, p.m, p.day, 0, 0, 0, 0)
                 ELSE NoneValue
            [] data_type = StrOf("time") -> value
            [] OTHER -> data
  ELSE data

\* str.encode('utf-8') and bytes.decode('utf-8') on the characters of a
\* string: an ASCII character is written as itself, a character given by
\* its code point (below 65536) as two or three bytes.
Utf8Bytes(c) ==
  IF c.t = "str" THEN <<c>>
  ELSE IF c.n < 128 THEN <<IntOf(c.n)>>
  ELSE IF c.n < 2048 THEN <<IntOf(192 + (c.n \div 64)), IntOf(128 + (c.n % 64))>>
  ELSE <<IntOf(224 + (c.n \div 4096)), IntOf(128 + ((c.n \div 64) % 64)),
         IntOf(128 + (c.n % 64))>>
RECURSIVE utf8_encode(_)
utf8_encode(q) == IF q = <<>> THEN <<>> ELSE Utf8Bytes(Head(q)) \o utf8_encode(Tail(q))
RECURSIVE utf8_decode(_)
utf8_decode(b) ==
  IF b = <<>> THEN <<>>
  ELSE IF b[1].t = "str" \/ b[1].n < 128 THEN <<b[1]>> \o utf8_decode(Tail(b))
  ELSE IF b[1].n < 224
  THEN <<IntOf(((b[1].n - 192) * 64) + (b[2].n - 128))>> \o utf8_decode(SubSeq(b, 3, Len(b)))
  ELSE <<IntOf(((b[1].n - 224) * 4096) + ((b[2].n - 128) * 64) + (b[3].n - 128))>>
         \o utf8_decode(SubSeq(b, 4, Len(b)))

\* msgpack.packb(data, default=encode, encoding='utf-8'): dicts, lists,
\* ints, None and strings (as UTF-8 bytes) are written as they are; any
\* other object is replaced by what encode gives for it.
Raw(x) == [t |-> "raw", d |-> <<>>, l |-> utf8_encode(x.l), n |-> 0, s |-> x.s]
RECURSIVE packb(_)
packb(data) ==
  CASE IsDict(data) -> DictOf([k \in DOMAIN data.d |-> packb(data.d[k])])
    [] IsList(data) -> ListOf([i \in DOMAIN data.l |-> packb(data.l[i])])
    [] IsStr(data) -> Raw(data)
    [] data.t \in {"int", "none"} -> data
    [] OTHER -> packb(encode(data).val)

\* msgpack.unpackb(packed, list_hook=decode, encoding='utf-8'): every list
\* is handed to decode once its items are unpacked.
RECURSIVE unpackb(_)
unpackb(packed) ==
  CASE IsDict(packed) -> DictOf([k \in DOMAIN packed.d |-> unpackb(packed.d[k])])
    [] IsList(packed) -> decode(ListOf([i \in DOMAIN packed.l |-> unpackb(packed.l[i])]))
    [] packed.t = "raw" ->
         [t |-> "str", d |-> <<>>, l |-> utf8_decode(packed.l), n |-> 0, s |-> packed.s]
    [] OTHER -> packed

\* The documents packed: a price, a day, optionally a moment, and a nested
\* dict with a name that is not ASCII.
Decimals ==
  {DecimalOf(<<"1", ".", "5">>), DecimalOf(<<"-", "0", ".", "5", "0">>),
   DecimalOf(<<"1", "2">>), DecimalOf(<<"1", "2", "3", ".", "3", "2", "1">>)}
Dates == {DateOf(2017, 1, 27), DateOf(2016, 2, 29), DateOf(2017, 12, 31)}
Datetimes == {DatetimeOf(2017, 1, 27, 20, 12, 8, 952811), DatetimeOf(2017, 1, 27, 0, 0, 0, 0)}
\* 'Zo\u00eb' and '\u65e5\u672c\u8a9e', characters outside ASCII by code point.
Unicode(q) == [t |-> "str", d |-> <<>>, l |-> [i \in DOMAIN q |-> IntOf(q[i])], n |-> 0, s |-> ""]
Names == {Unicode(<<90, 111, 235>>), Unicode(<<26085, 26412, 35486>>)}
CodecDocuments ==
  {DictOf((Key("price") :> price) @@ (Key("day") :> day)
          @@ (Key("user") :> DictOf(Key("name") :> name)))
     : price \in Decimals, day \in Dates, name \in Names}
  \cup
  {DictOf((Key("price") :> price) @@ (Key("day") :> day) @@ (Key("at") :> at)
          @@ (Key("user") :> DictOf(Key("name") :> name)))
     : price \in Decimals, day \in Dates, at \in Datetimes, name \in Names}

\* The lists decoded: well-formed markers, markers with a malformed value,
\* markers of unknown types, and lists that are no markers.
MarkerTypes == {"decimal", "datetime", "date", "time", "object", "Decimal"}
MarkerValues ==
  {ListOf(<<Text(<<"1", "2", "3">>), Text(<<"3", "2", "1">>)>>),
   ListOf(<<Text(<<"1">>), Text(<<"2">>), Text(<<"3">>)>>),
   ListOf(<<IntOf(1), IntOf(5)>>),
   Text(<<"1", "2">>), Text(<<"a", "b">>), Text(<<>>), IntOf(5), NoneValue,
   Text(<<"2", "0", "1", "7", "-", "0", "1", "-", "2", "7">>),
   Text(<<"2", "0", "1", "7", "-", "0", "2", "-", "3", "0">>),
   Text(date_to_str(DatetimeOf(2017, 1, 27, 20, 12, 8, 952811))),
   Text(<<"2", "0", ":", "1", "2">>), StrOf("OK")}
Markers ==
  {Marker(name, value) : name \in MarkerTypes, value \in MarkerValues}
  \cup {ListOf(<<StrOf("kind"), StrOf("date"), Text(<<"x">>)>>),
        ListOf(<<StrOf("type"), StrOf("date")>>)}

CodecInit ==
  /\ DispatcherInit
  /\ metaIn = NoMeta /\ metaOut = NoMeta
  /\ ActionIdle
  /\ \E data \in CodecDocuments \cup Markers : fnIn = [op |-> "input", doc |-> data]
  /\ fnOut = NoFn

\* unpack(pack(data))
PackUnpack ==
  /\ fnOut = NoFn
  /\ IsDict(fnIn.doc)
  /\ fnOut' = Outcome("unpack", "ok", unpackb(packb(fnIn.doc)), fnIn.doc)
  /\ UNCHANGED <<fnIn, dvars, metaIn, metaOut, avars>>

\* decode(data)
Decode ==
  /\ fnOut = NoFn
  /\ IsList(fnIn.doc)
  /\ fnOut' = Outcome("decode", "ok", decode(fnIn.doc), fnIn.doc)
  /\ UNCHANGED <<fnIn, dvars, metaIn, metaOut, avars>>

CodecNext == PackUnpack \/ Decode

SpecCodec == CodecInit /\ [][CodecNext]_vars

(* ---------------------------- versions.py ------------------------------ *)

\* A version string is the sequence of its characters.  Their order is the
\* one of the code points.
Ord == ("*" :> 42) @@ ("." :> 46) @@ ("0" :> 48) @@ ("1" :> 49) @@ ("2" :> 50) @@ ("a" :> 97)

\* str < str and list < list as Python compares them.
RECURSIVE StrLess(_, _)
StrLess(a, b) ==
  IF b = <<>> THEN FALSE
  ELSE IF a = <<>> THEN TRUE
  ELSE IF Head(a) # Head(b) THEN Ord[Head(a)] < Ord[Head(b)]
  ELSE StrLess(Tail(a), Tail(b))
RECURSIVE ListLess(_, _)
ListLess(a, b) ==
  IF b = <<>> THEN FALSE
  ELSE IF a = <<>> THEN TRUE
  ELSE IF Head(a) # Head(b) THEN StrLess(Head(a), Head(b))
  ELSE ListLess(Tail(a), Tail(b))

\* sort_versions: the versions sorted by the list of their parts.
sort_versions(versions) ==
  SortSeq(KeyOrder(versions), LAMBDA a, b : ListLess(split(a, "."), split(b, ".")))

\* VersionParser.parse_next and VersionPattern.parse_next: the part before
\* the first '.' of the suffix is split off; the rest is the new suffix,
\* None (has FALSE) when there is no '.'; suffix_len is the suffix's length
\* in characters.
parse_next(v) ==
  LET i == FindDelim(v.suffix, ".")
      rest == IF i = 0 THEN <<>> ELSE SubSeq(v.suffix, i + 1, Len(v.suffix))
  IN [v EXCEPT !.part = IF i = 0 THEN v.suffix ELSE SubSeq(v.suffix, 1, i - 1),
               !.has = i # 0,
               !.suffix = rest,
               !.suffix_len = Len(rest)]

\* VersionParser(value)
VersionParser(value) ==
  parse_next([value |-> value, part |-> <<>>, has |-> TRUE, suffix |-> value,
              suffix_len |-> 0, static |-> FALSE, latest_version |-> FALSE])

\* VersionParser.current_value: '{}.{}'.format(part, suffix)
current_value(v) == v.part \o <<".">> \o (IF v.has THEN v.suffix ELSE <<"None">>)

\* DUPLICATES.sub(r'\1', pattern): a run of '*' becomes one '*'.
RECURSIVE RemoveDuplicates(_)
RemoveDuplicates(q) ==
  IF Len(q) < 2 THEN q
  ELSE IF q[1] = "*" /\ q[2] = "*" THEN RemoveDuplicates(Tail(q))
  ELSE <<Head(q)>> \o RemoveDuplicates(Tail(q))

\* VersionPattern(pattern)
VersionPattern(pattern) ==
  LET value == RemoveDuplicates(pattern)
      static == \A i \in DOMAIN value : value[i] # "*"
      new == [value |-> value, part |-> <<>>, has |-> ~static,
              suffix |-> IF static THEN <<>> ELSE value,
              suffix_len |-> 0, static |-> static,
              latest_version |-> ~static /\ value = <<"*">>]
  IN IF static THEN new ELSE parse_next(new)

\* VersionPattern.highest
highest(pattern) == pattern.part = <<"*">>

\* find_version(pattern, versions): [st, val] with st "ok",
\* "VersionNotFound", or "IndexError" (versions[-1] of an empty list).
RECURSIVE find_version(_, _)
find_version(pattern, versions) ==
  IF pattern.static THEN [st |-> "ok", val |-> pattern.value]
  ELSE IF pattern.latest_version
  THEN IF versions = <<>> THEN [st |-> "IndexError", val |-> <<>>]
       ELSE [st |-> "ok", val |-> versions[Len(versions)].value]
  ELSE IF versions = <<>> THEN [st |-> "VersionNotFound", val |-> pattern.value]
  ELSE
    LET fits == IF highest(pattern)
                THEN {i \in DOMAIN versions : versions[i].suffix_len = pattern.suffix_len}
                ELSE {i \in DOMAIN versions :
                        /\ versions[i].suffix_len = pattern.suffix_len
                        /\ versions[i].part = pattern.part}
    IN IF fits = {} THEN [st |-> "VersionNotFound", val |-> pattern.value]
       ELSE
         LET at == IF highest(pattern)
                   THEN CHOOSE i \in fits : \A j \in fits : j <= i
                   ELSE CHOOSE i \in fits : \A j \in fits : i <= j
             current_version == versions[at]
             prefix == current_version.part \o <<".">>
         IN IF ~pattern.has \/ pattern.suffix = <<>>
            THEN [st |-> "ok", val |-> current_version.part]
            ELSE IF \A i \in DOMAIN pattern.suffix : pattern.suffix[i] # "*"
            THEN [st |-> "ok", val |-> prefix \o pattern.suffix]
            ELSE
              LET kept == SelectSeq(versions,
                            LAMBDA v : /\ v.has /\ v.suffix # <<>>
                                       /\ Len(current_value(v)) >= Len(prefix)
                                       /\ SubSeq(current_value(v), 1, Len(prefix)) = prefix)
                  r == find_version(parse_next(pattern),
                                    [i \in DOMAIN kept |-> parse_next(kept[i])])
              IN IF r.st = "ok" THEN [st |-> "ok", val |-> prefix \o r.val] ELSE r

\* Resolution of a pattern against a set of version strings: the versions
\* are sorted, parsed, and handed to find_version.
resolve(pattern, versions) ==
  LET sorted == sort_versions(versions)
  IN find_version(VersionPattern(pattern), [i \in DOMAIN sorted |-> VersionParser(sorted[i])])

\* Most versions of one set; the version strings and the patterns.
MaxVersions == 2
VersionStrings ==
  {<<"1", ".", "0">>, <<"1", ".", "1">>, <<"1", ".", "2">>, <<"1", ".", "1", "0">>,
   <<"2", ".", "0">>, <<"2">>, <<"1", ".", "0", ".", "1">>, <<"1", ".", "a">>}
VersionPatterns ==
  {<<"*">>, <<"1", ".", "*">>, <<"*", ".", "*">>, <<"*", ".", "1">>, <<"*", ".", "0">>,
   <<"2", ".", "*">>, <<"1", ".", "*", ".", "*">>, <<"*", "*", ".", "*">>, <<"*", ".", "*", ".", "1">>}

VersionInit ==
  /\ DispatcherInit
  /\ metaIn = NoMeta /\ metaOut = NoMeta
  /\ ActionIdle
  /\ \E pattern \in VersionPatterns :
       \E versions \in {S \in SUBSET VersionStrings : Cardinality(S) <= MaxVersions} :
         fnIn = [op |-> "input", pattern |-> pattern, versions |-> versions]
  /\ fnOut = NoFn

\* find_version(VersionPattern(pattern), [VersionParser(v) for v in sort_versions(versions)])
Resolve ==
  /\ fnOut = NoFn
  /\ LET r == resolve(fnIn.pattern, fnIn.versions)
     IN fnOut' = [op |-> "resolve", st |-> r.st, val |-> r.val]
  /\ UNCHANGED <<fnIn, dvars, metaIn, metaOut, avars>>

VersionNext == Resolve

SpecVersion == VersionInit /\ [][VersionNext]_vars

(* ---------------------- the listener's life cycle ---------------------- *)

\* Most frames the peers send, explicit stop() calls and listen() calls.
MaxFrames == 2
MaxStops == 2
MaxListens == 2

\* ComponentServer.__init__: __socket is None; __worker_socket is not
\* assigned before listen().  Next to the two attributes the record counts
\* the sockets opened and closed, the frames sent by the peers, received by
\* the loop, in the hands of a greenlet, pushed to inproc://workers, and
\* the responses sent; `stopped` tells that stop() was called, and `at`
\* holds the frames received and responses sent when it first was.
NewServer ==
  [op |-> "__init__", raised |-> "none", phase |-> "idle",
   socket |-> "None", worker_socket |-> "unset",
   opened |-> 0, closed |-> 0, listens |-> 0, stops |-> 0,
   arrived |-> 0, received |-> 0, pending |-> 0, workq |-> 0, sent |-> 0,
   stopped |-> FALSE, at |-> <<0, 0>>]

\* ComponentServer.stop: an open __socket is unregistered, closed and set
\* to None, then the same for __worker_socket; reading __worker_socket
\* before listen() assigned it raises AttributeError.
stop(server) ==
  [server EXCEPT
     !.raised = IF server.worker_socket = "unset" THEN "AttributeError" ELSE "none",
     !.socket = "None",
     !.worker_socket = IF @ = "unset" THEN "unset" ELSE "None",
     !.closed = @ + (IF server.socket = "open" THEN 1 ELSE 0)
                  + (IF server.worker_socket = "open" THEN 1 ELSE 0),
     !.stopped = TRUE,
     !.at = IF server.stopped THEN @ ELSE <<server.received, server.sent>>]

ListenerInit ==
  /\ DispatcherInit
  /\ metaIn = NoMeta /\ metaOut = NoMeta
  /\ ActionIdle
  /\ fnIn = [op |-> "input"]
  /\ fnOut = NewServer

ListenerFrame == UNCHANGED <<fnIn, dvars, metaIn, metaOut, avars>>

\* listen(channel) up to the loop: both sockets are created, bound and
\* registered.  Nothing in listen() looks at an earlier stop().
Listen ==
  /\ fnOut.phase # "listening"
  /\ fnOut.listens < MaxListens
  /\ fnOut' = [fnOut EXCEPT !.op = "listen", !.raised = "none", !.phase = "listening",
                            !.socket = "open", !.worker_socket = "open",
                            !.opened = @ + 2, !.listens = @ + 1]
  /\ ListenerFrame

\* A peer sends a request frame to the channel.
Arrive ==
  /\ fnOut.arrived < MaxFrames
  /\ fnOut' = [fnOut EXCEPT !.op = "arrive", !.arrived = @ + 1]
  /\ ListenerFrame

\* The loop: the REP socket polls readable; the frame is received and a
\* greenlet is spawned for it.
Receive ==
  /\ fnOut.phase = "listening" /\ fnOut.socket = "open"
  /\ fnOut.arrived > fnOut.received
  /\ fnOut.received = fnOut.sent
  /\ fnOut' = [fnOut EXCEPT !.op = "recv", !.received = @ + 1, !.pending = @ + 1]
  /\ ListenerFrame

\* A greenlet pushes its response to inproc://workers.
WorkerDone ==
  /\ fnOut.pending > 0
  /\ fnOut' = [fnOut EXCEPT !.op = "push", !.pending = @ - 1, !.workq = @ + 1]
  /\ ListenerFrame

\* The loop: the worker socket polls readable; the response is received
\* from it and sent on the REP socket.
Forward ==
  /\ fnOut.phase = "listening"
  /\ fnOut.socket = "open" /\ fnOut.worker_socket = "open"
  /\ fnOut.workq > 0
  /\ fnOut' = [fnOut EXCEPT !.op = "send", !.workq = @ - 1, !.sent = @ + 1]
  /\ ListenerFrame

\* The loop raises: `except: self.stop(); raise`.
LoopRaises ==
  /\ fnOut.phase = "listening"
  /\ fnOut' = [stop(fnOut) EXCEPT !.op = "except", !.raised = "Exception",
                                  !.phase = "returned"]
  /\ ListenerFrame

\* server.stop() called from outside the loop, before, while or after
\* listen() runs.
Stop ==
  /\ fnOut.stops < MaxStops
  /\ fnOut' = [stop(fnOut) EXCEPT !.op = "stop", !.stops = @ + 1]
  /\ ListenerFrame

ListenerNext ==
  Listen \/ Arrive \/ Receive \/ WorkerDone \/ Forward \/ LoopRaises \/ Stop

SpecListener == ListenerInit /\ [][ListenerNext]_vars

(* ------------- a handler's lookups while the registry changes ---------- *)

\* Most replacements of the registry and lookups of one handler run.
MaxReplacements == 2
MaxLookups == 2

\* A table that knows other services only.
TableC == {Schema("posts", "2.0", TRUE, TRUE)}
RegistryTables == {EmptyTable, TableA, TableB, TableC}

\* SchemaRegistry.has_mappings
has_mappings(table) == table # {}

\* The entry of the component's own service in a table.
OwnEntries(table) == {e \in table : e.service = args.name /\ e.version = args.version}

\* Action.call: the address is read from the registry when the call is
\* made; the check of a local file uses the schema kept by __init__.
CallAnswer(table, service_schema) ==
  IF OwnEntries(table) = {} THEN "ApiError"
  ELSE IF ~call_files_supported(<<LocalFile>>, service_schema) THEN "NoFileServerError"
  ELSE "ok"

\* Action.defer_call and Action.remote_call with a local file: the check of
\* __files_to_payload uses the schema kept by __init__.
RegisterAnswer(service_schema) ==
  IF files_to_payload(<<LocalFile>>, service_schema).raised = NoError
  THEN "ok" ELSE "NoFileServerError"

\* Action.set_download: when the registry has mappings, 'files' is read
\* from the entry of the service in the registry as it is now; get raises
\* KeyError when the registry has no such entry.
SetDownloadAnswer(table) ==
  IF ~has_mappings(table) THEN "ok"
  ELSE IF OwnEntries(table) = {} THEN "KeyError"
  ELSE IF (CHOOSE e \in OwnEntries(table) : TRUE).files THEN "ok"
  ELSE "NoFileServerError"

\* The answer of an operation of the handler, given the table the registry
\* holds when it is made and the schema Action.__init__ resolved.
AnswerOf(op, table, service_schema) ==
  CASE op = "call" -> CallAnswer(table, service_schema)
    [] op = "set_download" -> SetDownloadAnswer(table)
    [] OTHER -> RegisterAnswer(service_schema)

\* Action.__init__ of a request: the schema of the service is resolved from
\* the registry as it is then.
SnapshotInit ==
  /\ DispatcherInit
  /\ metaIn = NoMeta /\ metaOut = NoMeta
  /\ ActionIdle
  /\ \E table \in RegistryTables :
       /\ fnIn = [op |-> "input", table |-> table]
       /\ fnOut = [op |-> "__init__", table |-> table, schema |-> ServiceSchema(table),
                   answer |-> "", replaced |-> 0, lookups |-> 0]

\* Another frame is taken up while the handler runs: its mappings part
\* replaces the table of the registry, which the handler's Action shares.
RegistryReplaced ==
  /\ fnOut.replaced < MaxReplacements
  /\ \E table \in RegistryTables :
       fnOut' = [fnOut EXCEPT !.table = update_registry(@, table), !.replaced = @ + 1]
  /\ UNCHANGED <<fnIn, dvars, metaIn, metaOut, avars>>

\* The handler calls call, defer_call, remote_call (each with a local file)
\* or set_download.
HandlerLookup(op) ==
  /\ fnOut.lookups < MaxLookups
  /\ fnOut' = [fnOut EXCEPT !.op = op, !.lookups = @ + 1,
                            !.answer = AnswerOf(op, fnOut.table, fnOut.schema)]
  /\ UNCHANGED <<fnIn, dvars, metaIn, metaOut, avars>>

SnapshotNext ==
  \/ RegistryReplaced
  \/ HandlerLookup("call")
  \/ HandlerLookup("defer_call")
  \/ HandlerLookup("remote_call")
  \/ HandlerLookup("set_download")

SpecSnapshot == SnapshotInit /\ [][SnapshotNext]_vars

(* ------------- set, push and merge that may raise TypeError ------------ *)

\* The dicts merged in: those of two keys, so that one key can be merged
\* before the other fails.
FrameSources == {Shifted(x) : x \in {y \in MergeDocuments : Sibling \in DOMAIN y.d}}

FrameInit ==
  /\ DispatcherInit
  /\ metaIn = NoMeta /\ metaOut = NoMeta
  /\ ActionIdle
  /\ \E doc \in MergeDocuments, source \in FrameSources,
        mappings \in MappingTables, delimiter \in Delimiters :
       \E path \in Paths(MaxSegs - 1, delimiter) :
         fnIn = [op |-> "input", doc |-> doc, path |-> path, value |-> source,
                 mappings |-> mappings, delimiter |-> delimiter]
  /\ fnOut = NoFn

\* LookupDict(doc, mappings).set(path, value, delimiter)
FrameSet ==
  /\ fnOut = NoFn
  /\ LET r == set_path(fnIn.doc, fnIn.path, fnIn.value, fnIn.mappings, fnIn.delimiter)
     IN fnOut' = Outcome("set", r.st, EmptyDict, r.doc)
  /\ UNCHANGED <<fnIn, dvars, metaIn, metaOut, avars>>

\* LookupDict(doc, mappings).push(path, value, delimiter)
FramePush ==
  /\ fnOut = NoFn
  /\ LET r == push(fnIn.doc, fnIn.path, fnIn.value, fnIn.mappings, fnIn.delimiter)
     IN fnOut' = Outcome("push", r.st, EmptyDict, r.doc)
  /\ UNCHANGED <<fnIn, dvars, metaIn, metaOut, avars>>

\* LookupDict(doc, mappings).merge(path, value, delimiter), the value
\* yielding its keys in any order.
FrameMerge ==
  /\ fnOut = NoFn
  /\ \E keys \in KeyOrders(DOMAIN fnIn.value.d) :
       LET target == merge_item(fnIn.doc, fnIn.path, fnIn.mappings, fnIn.delimiter)
           r == LookupDict_merge_in(fnIn.doc, fnIn.path, fnIn.value,
                                    merge_keys(fnIn.value, target, keys, fnIn.mappings, TRUE),
                                    fnIn.mappings, fnIn.delimiter)
       IN fnOut' = Outcome("merge", r.st, EmptyDict, r.doc)
  /\ UNCHANGED <<fnIn, dvars, metaIn, metaOut, avars>>

FrameNext == FrameSet \/ FramePush \/ FrameMerge

SpecFrame == FrameInit /\ [][FrameNext]_vars

(* ------------------------------- claims -------------------------------- *)

\* Responses sent to the peer of request r, and responses the greenlet of
\* request r has produced (forwarded or still queued).
SentTo(r) == {i \in 1..Len(sent) : sent[i].to = r}
ProducedBy(r) ==
  Cardinality({i \in 1..Len(sent) : sent[i].from = r})
    + Cardinality({i \in 1..Len(workq) : workq[i].from = r})

TimedOutResponse == create_error_response(TimedOutMsg)

\* A worker that has not ended.
InFlight(r) == wpc[r] \in {"queued", "running", "created", "called"}

\* C1: every received request gets exactly one response frame: none while
\* its greenlet waits, one from the moment the greenlet stops waiting, never
\* two; a reply always reaches the peer of the request it answers; and once
\* the timeout has fired the one response is the timed-out error, whatever
\* the abandoned worker produces afterwards.
C1_ExactlyOneResponse ==
  \A r \in Requests :
    /\ Cardinality(SentTo(r)) <= 1
    /\ ProducedBy(r) = IF glet[r] \in {"replied", "timedout"} THEN 1 ELSE 0
    /\ \A i \in SentTo(r) : sent[i].from = r
    /\ glet[r] = "timedout" =>
         /\ \A i \in SentTo(r) : sent[i].frames = TimedOutResponse
         /\ \A i \in 1..Len(workq) : workq[i].from = r => workq[i].frames = TimedOutResponse
    /\ workq # <<>> => repPending # 0

\* C1 witness: the timeout of a request fired first, its worker later
\* produced a result, and every request sent has its one response.
C1_Witness ==
  /\ nsent = MaxRequests
  /\ \A r \in Requests : Cardinality(SentTo(r)) = 1
  /\ \E r \in Requests :
       /\ glet[r] = "timedout"
       /\ result[r].state = "value"
       /\ result[r].frames # TimedOutResponse

\* The document a sent response carries.
SentDoc(i) == unpack(sent[i].frames[2])

\* Request r was answered by its own worker's result, not by the timeout.
AnsweredByWorker(i) == sent[i].from = sent[i].to /\ glet[sent[i].to] = "replied"

\* C2: each request's transport document is owned by that request's worker
\* alone: the response to a request whose handler returned carries the
\* transport built from that request's own command with its own handler's
\* changes, and its own return value, never those of another request.
C2_OwnTransport ==
  \A i \in 1..Len(sent) :
    LET r == sent[i].to IN
    (AnsweredByWorker(i) /\ outcome[r].kind = "return") =>
      SentDoc(i) = CommandResultPayload_new("cmd", component_to_payload(rvobj[r], tobj[r]))

\* Any step of the pool worker of request r.
WorkerStep(r) ==
  WorkerReceive(r) \/ WorkerCreate(r) \/ WorkerCall(r) \/ WorkerReply(r)

\* The response the greenlet of r has produced, queued or forwarded.
Produced(r) ==
  {sent[i].frames : i \in {j \in 1..Len(sent) : sent[j].from = r}}
    \cup {workq[i].frames : i \in {j \in 1..Len(workq) : workq[j].from = r}}

\* While the timeout of r has fired: its response is the error document
\* saying the execution timed out, and its unfinished worker can go on.
C3_TimedOutState ==
  \A r \in Requests :
    glet[r] = "timedout" =>
      /\ Produced(r) =
           {<<EMPTY_META,
              pack([error |-> [message |-> "SDK execution timed out after 30000ms"]])>>}
      /\ InFlight(r) => ENABLED WorkerStep(r)

\* The step on which the timeout of r fires: the worker has not finished,
\* the response is pushed on that very step, and the worker's position, its
\* result and everything it works on are left as they are.
C3_TimeoutStep ==
  \A r \in Requests :
    (glet[r] # "timedout" /\ glet'[r] = "timedout") =>
      /\ result[r] = Pending /\ InFlight(r)
      /\ workq' = Append(workq, [from |-> r, frames |-> TimedOutResponse])
      /\ UNCHANGED <<wpc, result, payload, tobj, rvobj, outcome, handlerCalls>>

\* C3: if a handler has not finished when the per-request timeout expires,
\* the dispatcher answers the request at expiry without waiting for the
\* handler, with an error response whose message says the execution timed
\* out, and the worker is left running rather than killed.
C3_TimeoutAnswersAndAbandons == [](C3_TimedOutState) /\ [][C3_TimeoutStep]_vars

\* C3 witness: the timed-out response of a request has reached its peer and
\* the worker of that request went on to invoke the handler.
C3_Witness ==
  \E r \in Requests :
    /\ glet[r] = "timedout"
    /\ \E i \in SentTo(r) : sent[i].frames = TimedOutResponse
    /\ wpc[r] = "called"
    /\ handlerCalls[r] = 1

\* A further inbound frame waits at the request socket while the handler of
\* an earlier request is still executing and that request is not answered.
FrameWaitsBehindHandler ==
  /\ inbox # <<>>
  /\ \E r \in Requests : wpc[r] \in {"created", "called"} /\ SentTo(r) = {}

\* C4: a slow or blocking handler does not starve the listener: while one
\* request's handler is still executing, the listener accepts a further
\* inbound frame and hands it to the worker pool, so the handling of a later
\* request can start before the response of the earlier one has been sent.
C4_ListenerNotStarved == FrameWaitsBehindHandler => ENABLED ListenRecv

\* The ways a received frame can be unfit for dispatch.
Malformed(f) == Len(f) # 3
UnknownAction(f) == Len(f) = 3 /\ f[1].kind = "utf8" /\ f[1].val # "test"
CommandGarbled(f) == Len(f) = 3 /\ f[3].kind # "msgpack"

\* The error response the worker gives for an unfit frame.
UnfitResponse(f) ==
  <<EMPTY_META,
    pack([error |-> [message |->
      IF Malformed(f) THEN "Failed to handle request"
      ELSE IF UnknownAction(f)
      THEN "Invalid action for component \"users\" (1.0): \"" \o f[1].val \o "\""
      ELSE "Internal communication failed"]])>>

\* C5: a frame that is malformed (not exactly three parts), names an action
\* with no registered handler, or carries a command that cannot be unpacked
\* is answered with an error response whose meta part is the single
\* empty-metadata byte, and no handler is invoked for that frame.
C5_UnfitFrameRejected ==
  \A r \in Requests :
    LET f == stream[r] IN
    (glet[r] # "none" /\ (Malformed(f) \/ UnknownAction(f) \/ CommandGarbled(f))) =>
      /\ handlerCalls[r] = 0
      /\ outcome[r] = NoOutcome
      /\ wpc[r] \in {"queued", "done"}
      /\ wpc[r] = "done" => result[r] = Value(UnfitResponse(f))
      /\ \A fr \in Produced(r) :
           /\ Len(fr) = 2
           /\ fr[1] = <<0>>
           /\ DOMAIN unpack(fr[2]) = {"error"}
           /\ glet[r] = "replied" => fr = UnfitResponse(f)

\* C5 witness: an unknown action and another unfit frame have both been
\* answered by their workers' error responses.
C5_Witness ==
  \E r, q \in Requests :
    /\ UnknownAction(stream[r])
    /\ ~UnknownAction(stream[q]) /\ (Malformed(stream[q]) \/ CommandGarbled(stream[q]))
    /\ \A x \in {r, q} :
         /\ glet[x] = "replied"
         /\ \E i \in SentTo(x) : sent[i].frames = UnfitResponse(stream[x])

\* The document of a response is wrapped under command_reply with a name
\* and a result.
Wrapped(doc) ==
  /\ DOMAIN doc = {"command_reply"}
  /\ DOMAIN doc.command_reply = {"name", "result"}

\* C6 (as stated): every response frame the dispatcher emits has exactly two
\* parts and its result part is a document wrapped under command_reply
\* containing name and result; this includes error responses, so for a frame
\* naming an unregistered action the error message is found at
\* command_reply.result.error.message.
C6_AlwaysWrapped ==
  \A i \in 1..Len(sent) :
    /\ Len(sent[i].frames) = 2
    /\ Wrapped(SentDoc(i))
    /\ (AnsweredByWorker(i) /\ UnknownAction(stream[sent[i].to])) =>
         SentDoc(i).command_reply.result.error.message
           = "Invalid action for component \"users\" (1.0): \"nope\""

\* The response sent is the reply process_payload built after the handler
\* of the request ended.
HandlerReplySent(i) == AnsweredByWorker(i) /\ handlerCalls[sent[i].to] = 1

\* C6 (amended): every response frame has exactly two parts, meta and a
\* packed document.  The document is wrapped under command_reply, with the
\* command's name and a result, exactly when it is the reply built after the
\* handler ended; a handler exception is then at
\* command_reply.result.error.message.  Every error response the dispatcher
\* produces itself is a top-level error document with a message, so for an
\* unregistered action the message is found at error.message.
C6_WrappedOnlyAfterHandler ==
  \A i \in 1..Len(sent) :
    LET r == sent[i].to
        doc == SentDoc(i)
    IN /\ Len(sent[i].frames) = 2
       /\ sent[i].frames[2].kind = "msgpack"
       /\ IF HandlerReplySent(i)
          THEN /\ Wrapped(doc)
               /\ doc.command_reply.name = "cmd"
               /\ outcome[r].kind = "Exception" =>
                    doc.command_reply.result = [error |-> [message |-> outcome[r].message]]
               /\ outcome[r].kind # "Exception" =>
                    "transport" \in DOMAIN doc.command_reply.result
          ELSE /\ DOMAIN doc = {"error"}
               /\ DOMAIN doc.error = {"message"}
               /\ sent[i].frames[1] = <<0>>
       /\ (AnsweredByWorker(i) /\ UnknownAction(stream[r])) =>
            doc = [error |-> [message |->
                     "Invalid action for component \"users\" (1.0): \"nope\""]]

\* C6 witness: an unregistered action was answered with a top-level error
\* document and a raising handler with a wrapped one.
C6_Witness ==
  \E i, j \in 1..Len(sent) :
    /\ AnsweredByWorker(i) /\ UnknownAction(stream[sent[i].to])
    /\ DOMAIN SentDoc(i) = {"error"}
    /\ HandlerReplySent(j) /\ outcome[sent[j].to].kind = "Exception"
    /\ Wrapped(SentDoc(j))

\* The byte b occurs in the meta part m.
HasFlag(m, b) == \E k \in 1..Len(m) : m[k] = b

\* The transport of the result payload under test, <<>> when it has none.
MetaT ==
  IF "command_reply" \in DOMAIN metaIn.payload
       /\ "transport" \in DOMAIN metaIn.payload.command_reply.result
  THEN <<metaIn.payload.command_reply.result.transport>>
  ELSE <<>>

HandlerRaised(r) == handlerCalls[r] = 1 /\ outcome[r].kind \in {"KatanaError", "Exception"}

\* The error response for the handler failure of request r, from the
\* request and the exception alone.
ErrorReply(r) ==
  <<EMPTY_META,
    pack([command_reply |->
           [name |-> "cmd",
            result |->
              IF outcome[r].kind = "Exception"
              THEN [error |-> [message |-> outcome[r].message]]
              ELSE [transport |->
                     [id |-> r, gateway |-> TRUE, body |-> 0, transactions |-> 0,
                      calls |-> <<>>, othercalls |-> 0, files |-> {},
                      errors |-> <<[message |-> outcome[r].message]>>]]]])>>

\* Once the worker of a request has ended: the callback was called once with
\* the exception the handler raised, or not at all when the handler
\* returned, and a handler failure gave its error response whether or not
\* the callback failed.
C8_CallbackState ==
  \A r \in Requests :
    /\ Len(errcb[r]) <= 1
    /\ (wpc[r] = "done" /\ HandlerRaised(r)) =>
         /\ errcb[r] = <<outcome[r]>>
         /\ result[r] = Value(ErrorReply(r))
         /\ glet[r] = "replied" => Produced(r) = {ErrorReply(r)}
    /\ ~HandlerRaised(r) => errcb[r] = <<>>
    /\ wpc[r] # "done" => errcb[r] = <<>>
    /\ (glet[r] = "waiting" /\ result[r] # Pending) => ENABLED GreenletResult(r)
    /\ RepReadable => ENABLED ListenRecv

\* The step on which a callback failure is logged ends the worker with the
\* error response, and fails no other request.
C8_CallbackStep ==
  ("Error callback failed" \notin log /\ "Error callback failed" \in log') =>
    \E r \in Requests :
      /\ wpc[r] = "called" /\ wpc'[r] = "done"
      /\ HandlerRaised(r)
      /\ result'[r] = Value(ErrorReply(r))
      /\ \A q \in Requests \ {r} : result'[q] = result[q] /\ wpc'[q] = wpc[q]

\* C8: when a handler raises, the registered error callback is invoked
\* exactly once with that original exception, and it is not invoked when the
\* handler succeeds; if the callback itself raises, the dispatcher still
\* sends the same error response it would have sent had the callback
\* succeeded, and keeps serving.
C8_ErrorCallback == [](C8_CallbackState) /\ [][C8_CallbackStep]_vars

\* C8 witness: the only handler that raised had its callback fail, its error
\* response reached the peer, and a later request was served after it.
C8_Witness ==
  \E r, q \in Requests :
    /\ r # q
    /\ "Error callback failed" \in log
    /\ HandlerRaised(r) /\ errcb[r] = <<outcome[r]>>
    /\ handlerCalls[q] = 1 /\ outcome[q].kind = "return" /\ errcb[q] = <<>>
    /\ \E i, j \in 1..Len(sent) :
         /\ i < j
         /\ sent[i].to = r /\ sent[i].frames = ErrorReply(r)
         /\ sent[j].to = q /\ AnsweredByWorker(j)

\* The response sent is the reply to a handler that failed with an uncaught
\* exception that is no handler error.
FaultReplySent(i) == HandlerReplySent(i) /\ outcome[sent[i].to].kind = "Exception"

\* C9: when a handler fails with an uncaught exception that is not a
\* user-raised handler error, the message in the response is a fixed generic
\* text that does not depend on the exception: two faults that differ only
\* in their exception text produce identical responses.
C9_GenericFaultMessage ==
  \A i, j \in 1..Len(sent) :
    (FaultReplySent(i) /\ FaultReplySent(j)) => sent[i].frames = sent[j].frames

\* The response sent is the reply to a handler that raised a handler error.
HandlerErrorReplySent(i) ==
  HandlerReplySent(i) /\ outcome[sent[i].to].kind = "KatanaError"

\* The error entries of the transport in a sent reply.
SentErrors(i) == SentDoc(i).command_reply.result.transport.errors

\* C10 (as stated): when a handler raises a handler error carrying a
\* message, a code and a status, the error entry in the response carries
\* exactly that message, that code and that status.
C10_ErrorVerbatim ==
  \A i \in 1..Len(sent) :
    (HandlerErrorReplySent(i) /\ outcome[sent[i].to].code # 0) =>
      /\ Len(SentErrors(i)) = 1
      /\ LET e == SentErrors(i)[1]
             exc == outcome[sent[i].to]
         IN /\ "message" \in DOMAIN e /\ e.message = exc.message
            /\ "code" \in DOMAIN e /\ e.code = exc.code
            /\ "status" \in DOMAIN e /\ e.status = exc.status

\* C10 (amended): when a handler raises a handler error, the result of the
\* reply is a transport with one error entry added for this component; the
\* entry holds exactly the message of the error and nothing else: a code
\* and a status the raised object carries are not transferred, and the
\* entry reads as code 0 and status "500 Internal Server Error".
C10_ErrorMessageOnly ==
  \A i \in 1..Len(sent) :
    HandlerErrorReplySent(i) =>
      LET r == sent[i].to IN
      /\ DOMAIN SentDoc(i).command_reply.result = {"transport"}
      /\ Len(SentErrors(i)) = 1
      /\ SentErrors(i)[1] = [message |-> outcome[r].message]
      /\ ErrorField(SentErrors(i)[1], "code") = 0
      /\ ErrorField(SentErrors(i)[1], "status") = "500 Internal Server Error"

\* C10 witness: a handler raised an error with code 7 and status
\* "403 Forbidden", and the reply sent carries an entry with its message.
C10_Witness ==
  \E i \in 1..Len(sent) :
    /\ HandlerErrorReplySent(i)
    /\ outcome[sent[i].to].code = 7 /\ outcome[sent[i].to].status = "403 Forbidden"
    /\ SentErrors(i) = <<[message |-> "denied"]>>

\* The frame of request r has three parts and its mappings part decodes to
\* a table.
CarriesMappings(r) == Len(stream[r]) = 3 /\ stream[r][2].kind = "msgpack"

\* C11: when an inbound frame carries a mappings part, the shared schema
\* registry holds exactly the table decoded from that part before that
\* frame's command is processed: on the step on which the worker takes up
\* the frame, ahead of the command being unpacked or any handler being
\* invoked, the old table is replaced wholesale, so no entry of the previous
\* table survives unless the new table also contains it.
C11_RegistryReplaced ==
  [][\A r \in Requests :
       (wpc[r] = "queued" /\ wpc'[r] # "queued" /\ CarriesMappings(r)) =>
         /\ registry' = stream[r][2].val
         /\ \A e \in registry \ stream[r][2].val : e \notin registry'
         /\ payload[r] = EmptyPayload
         /\ handlerCalls[r] = 0 /\ handlerCalls'[r] = 0
         /\ schema[r] = "none" /\ schema'[r] = "none"]_vars

\* C11 witness: the frame of request 1 brought one table, the frame of
\* request 2 another; both were taken up and the registry holds the second
\* table only, the entry for "posts" of the first being gone.
C11_Witness ==
  /\ CarriesMappings(1) /\ stream[1][2].val = TableB
  /\ CarriesMappings(2) /\ stream[2][2].val = TableA
  /\ wpc[1] = "done" /\ wpc[2] = "done"
  /\ result[1].state = "value" /\ glet[1] = "replied"
  /\ registry = TableA
  /\ \A e \in registry : e.service # "posts"

\* The last call of the handler was an immediate call that returned.
CallReturned == actLast.kind = "call" /\ actLast.raised = NoError

\* The callee of that call returned the transport it was sent, unchanged.
CalleeAddedNothing == actLast.reply = CalleeReturned(actRuntime)

\* C12: when the callee of an immediate call returns the transport it was
\* sent without adding anything, the caller's transport after call() equals
\* the caller's transport before it, no list entry duplicated, for the first
\* and for every later call of the handler.
C12_NoSelfMerge ==
  (CallReturned /\ CalleeAddedNothing) => actTransport = actLast.before

\* The sections named by C13, and the keys a section may be stored under:
\* its long name or its short code.
MergedSections == {"data", "relations", "links", "calls", "transactions", "errors"}
SectionKeys(name) == {Key(name), MapGet(FIELD_MAPPINGS, Key(name))}

\* What a transport holds outside the merged sections (meta included), and
\* what it holds of one section.
OutsideSections(doc) ==
  [k \in DOMAIN doc.d \ UNION {SectionKeys(name) : name \in MergedSections} |-> doc.d[k]]
SectionOf(doc, name) == [k \in DOMAIN doc.d \cap SectionKeys(name) |-> doc.d[k]]

\* The callee's transport has nothing in section `name`: absent, or empty.
CalleeHasNothing(name) ==
  LET g == get_path(actLast.reply.transport, Key(name), FIELD_MAPPINGS, DELIMITER)
  IN g.st # "ok" \/ ~Truthy(g.val)

\* C13: after an immediate call returns, the caller's transport differs
\* from its state before the call only inside data, relations, links,
\* calls, transactions and errors: meta is never changed, and a section
\* absent or empty in the callee's result is left as it was in the caller,
\* not created as an empty container.
C13_OnlyAllowListMerged ==
  CallReturned =>
    /\ OutsideSections(actTransport) = OutsideSections(actLast.before)
    /\ \A name \in MergedSections :
         CalleeHasNothing(name) =>
           SectionOf(actTransport, name) = SectionOf(actLast.before, name)

\* An immediate call returned from a callee that changed meta and sent an
\* empty errors container; the caller had no errors section and has none.
C13_Witness ==
  /\ CallReturned
  /\ actLast.reply.transport.d[Key("m")] # actLast.before.d[Key("m")]
  /\ Key("e") \in DOMAIN actLast.reply.transport.d
  /\ actLast.reply.transport.d[Key("e")] = EmptyDict
  /\ SectionOf(actTransport, "errors") = <<>>
  /\ actTransport.d[Key("m")] = actLast.before.d[Key("m")]

\* The calls section of a transport: [st, val].
CallsOf(doc) == get_path(doc, Key("calls"), FIELD_MAPPINGS, DELIMITER)

\* Service s and version v hold a list of calls in the calls section c.
HasCallList(c, s, v) ==
  /\ c.st = "ok" /\ IsDict(c.val)
  /\ s \in DOMAIN c.val.d /\ IsDict(c.val.d[s])
  /\ v \in DOMAIN c.val.d[s].d /\ IsList(c.val.d[s].d[v])
CallList(c, s, v) == c.val.d[s].d[v].l

\* The service and version keys found in the calls section c.
CallServices(c) == IF c.st = "ok" /\ IsDict(c.val) THEN DOMAIN c.val.d ELSE {}
CallVersions(c, s) == IF IsDict(c.val.d[s]) THEN DOMAIN c.val.d[s].d ELSE {}

\* C14: merging the calls section of the callee's transport into the
\* caller's, where both hold a list of calls under the same service and
\* version, leaves under that key the caller's entries followed by the
\* callee's entries, every entry of both sides present.
C14_CallsConcatenated ==
  CallReturned =>
    LET to == CallsOf(actLast.before)
        from == CallsOf(actLast.reply.transport)
        merged == CallsOf(actTransport)
    IN \A s \in CallServices(to) \cap CallServices(from) :
         \A v \in CallVersions(to, s) \cap CallVersions(from, s) :
           (HasCallList(to, s, v) /\ HasCallList(from, s, v)) =>
             /\ HasCallList(merged, s, v)
             /\ CallList(merged, s, v) = CallList(to, s, v) \o CallList(from, s, v)

\* Call lists with different entries were merged: the caller had registered
\* a call since its construction, the callee had registered another.
C14_Witness ==
  /\ CallReturned
  /\ LET to == CallsOf(actLast.before)
         from == CallsOf(actLast.reply.transport)
         s == Key(args.name)
         v == Key(args.version)
     IN /\ HasCallList(to, s, v) /\ HasCallList(from, s, v)
        /\ Len(CallList(to, s, v)) = 2 /\ Len(CallList(from, s, v)) = 2
        /\ CallList(to, s, v) # CallList(from, s, v)
        /\ CallList(CallsOf(actTransport), s, v) =
             CallList(to, s, v) \o CallList(from, s, v)

\* The last call of the handler, of whatever kind, returned.
StepReturned == actLast.kind # "none" /\ actLast.raised = NoError

\* The calls a transport holds for the calling service and version: none
\* when it has no such list.
OwnCalls(doc) ==
  LET c == CallsOf(doc)
  IN IF HasCallList(c, Key(args.name), Key(args.version))
     THEN CallList(c, Key(args.name), Key(args.version)) ELSE <<>>

\* x is the descriptor of a call to the callee; a remote one names a gateway.
IsDescriptor(x) ==
  /\ IsDict(x)
  /\ {Key("n"), Key("v"), Key("a")} \subseteq DOMAIN x.d
  /\ x.d[Key("n")] = StrOf(Callee.service)
  /\ x.d[Key("v")] = StrOf(Callee.version)
  /\ x.d[Key("a")] = StrOf(Callee.action)
RecordsGateway(x) ==
  Key("g") \in DOMAIN x.d /\ x.d[Key("g")] = StrOf("ktp://" \o RemoteAddress)

\* C15: each outbound call of a handler - immediate, deferred or remote -
\* adds exactly one descriptor at the end of the caller's calls list for the
\* calling service and version, every earlier descriptor staying in place
\* and in order; the descriptor of a remote call records the gateway address.
C15_EachCallAppends ==
  StepReturned =>
    /\ Len(OwnCalls(actTransport)) = Len(OwnCalls(actLast.before)) + 1
    /\ SubSeq(OwnCalls(actTransport), 1, Len(OwnCalls(actLast.before)))
         = OwnCalls(actLast.before)
    /\ IsDescriptor(OwnCalls(actTransport)[Len(OwnCalls(actTransport))])
    /\ actLast.kind = "remote_call" =>
         RecordsGateway(OwnCalls(actTransport)[Len(OwnCalls(actTransport))])

\* C15, amended: a deferred or a remote call that returns adds exactly one
\* descriptor at the end of that list, earlier descriptors staying in place
\* and in order, and the descriptor of a remote call alone records the
\* gateway address.  An immediate call that returns adds no descriptor of
\* its own: the list is the list before the call followed by the entries
\* the callee's transport holds under the same service and version.
C15_RegisteredCallsAppend ==
  StepReturned =>
    /\ actLast.kind = "defer_call" =>
         /\ OwnCalls(actTransport) = Append(OwnCalls(actLast.before), DeferredCallPayload)
         /\ IsDescriptor(DeferredCallPayload) /\ ~RecordsGateway(DeferredCallPayload)
    /\ actLast.kind = "remote_call" =>
         /\ OwnCalls(actTransport) = Append(OwnCalls(actLast.before), RemoteCallPayload)
         /\ IsDescriptor(RemoteCallPayload) /\ RecordsGateway(RemoteCallPayload)
    /\ actLast.kind = "call" =>
         OwnCalls(actTransport) =
           OwnCalls(actLast.before) \o OwnCalls(actLast.reply.transport)

\* A remote call was registered after two earlier calls, one of them
\* deferred by the same handler.
C15_Witness ==
  /\ StepReturned /\ actLast.kind = "remote_call"
  /\ OwnCalls(actLast.before) = <<DeferredCallPayload, DeferredCallPayload>>
  /\ OwnCalls(actTransport) =
       <<DeferredCallPayload, DeferredCallPayload, RemoteCallPayload>>

\* The calling service has a registered file server.
HasFileServer == actSchema.found /\ actSchema.files

\* A local file was attached to the last call.
LocalFileAttached == \E i \in DOMAIN actLast.files : actLast.files[i].local

\* C16: a call of any kind raises the no-file-server condition, naming the
\* calling service and version, exactly when at least one attached file is
\* local and the calling service has no registered file server; immediate,
\* deferred and remote calls decide this alike.
C16_FileGating ==
  actLast.kind # "none" =>
    (actLast.raised = NoFileServerError(args.name, args.version)
       <=> (LocalFileAttached /\ ~HasFileServer))

\* The operation `op` was applied to the document and ended with `st`.
Applied(op, st) == fnOut.op = op /\ fnOut.st = st

\* get on the document the operation left, with the same path, mappings
\* and delimiter.
GetAfter == get_path(fnOut.doc, fnIn.path, fnIn.mappings, fnIn.delimiter)

\* C17: get(p) right after a successful set(p, v) returns v, with and
\* without a mapping table, also when the document already holds a key under
\* the long name or the short code of a segment of p.
C17_SetGetRoundTrip ==
  Applied("set", "ok") => (GetAfter.st = "ok" /\ GetAfter.val = NewValue)

\* The path resolves in the document the operation was given.
Resolves == get_path(fnIn.doc, fnIn.path, fnIn.mappings, fnIn.delimiter).st = "ok"

\* C18: delete of a path that does not resolve in the document - also one
\* that runs through a scalar or a list at an intermediate segment -
\* returns false, raises nothing and leaves the document unchanged.
C18_DeleteMissing ==
  (fnOut.op = "delete" /\ ~Resolves) => (fnOut.st = "False" /\ fnOut.doc = fnIn.doc)

\* Along the parts of a deleted path: every key beside the path keeps its
\* value, and no dict left on the path is empty.
RECURSIVE SiblingsKept(_, _, _, _)
SiblingsKept(before, after, parts, mappings) ==
  LET name == LookupName(before, Head(parts), mappings)
  IN /\ IsDict(after)
     /\ \A k \in DOMAIN before.d \ {name} :
          k \in DOMAIN after.d /\ after.d[k] = before.d[k]
     /\ (Len(parts) > 1 /\ name \in DOMAIN after.d) =>
          /\ Truthy(after.d[name])
          /\ SiblingsKept(before.d[name], after.d[name], Tail(parts), mappings)

\* C19: delete of an existing path, of any depth and with the default or a
\* custom delimiter, returns true; the path no longer exists afterwards,
\* every ancestor dict that became empty is removed and every sibling key
\* keeps its value.
C19_DeleteExisting ==
  (fnOut.op = "delete" /\ Resolves) =>
    /\ fnOut.st = "True"
    /\ GetAfter.st # "ok"
    /\ SiblingsKept(fnIn.doc, fnOut.doc, split(fnIn.path, fnIn.delimiter), fnIn.mappings)

\* The key C20 prescribes for a segment: the rest of the segment, as it is,
\* after a leading '!'; otherwise the translated name - when writing the
\* short code, when reading the long name if the item has it and else the
\* short code.
PrescribedKey(item, seg, mappings, writing) ==
  IF Head(seg) = "!" THEN Tail(seg)
  ELSE IF ~writing /\ IsDict(item) /\ seg \in DOMAIN item.d THEN seg
  ELSE IF seg \in DOMAIN mappings THEN mappings[seg] ELSE seg

\* The keys prescribed for the segments of a path read in `item`, and for
\* the segments of a path written.
RECURSIVE ReadKeys(_, _, _)
ReadKeys(item, parts, mappings) ==
  IF parts = <<>> THEN <<>>
  ELSE LET k == PrescribedKey(item, Head(parts), mappings, FALSE)
       IN <<k>> \o ReadKeys(IF IsDict(item) /\ k \in DOMAIN item.d THEN item.d[k] ELSE item,
                            Tail(parts), mappings)
WriteKeys(parts, mappings) ==
  [i \in DOMAIN parts |-> PrescribedKey(EmptyDict, parts[i], mappings, TRUE)]

\* What is found by indexing `item` with the keys, one after the other.
RECURSIVE Walk(_, _)
Walk(item, keys) ==
  IF keys = <<>> THEN [st |-> "ok", val |-> item]
  ELSE IF ~IsDict(item) THEN [st |-> "TypeError", val |-> EmptyDict]
  ELSE IF Head(keys) \in DOMAIN item.d THEN Walk(item.d[Head(keys)], Tail(keys))
  ELSE [st |-> "KeyError", val |-> EmptyDict]

\* C20: in get, set, delete and push, a segment written with one leading
\* '!' addresses the key named by the rest of the segment literally, while
\* every other segment of the path is still translated: get finds what
\* lies under the prescribed keys, set and push put the value there, and
\* delete removes what lies there.
C20_LiteralSegments ==
  LET parts == split(fnIn.path, fnIn.delimiter)
      reads == ReadKeys(fnIn.doc, parts, fnIn.mappings)
      writes == WriteKeys(parts, fnIn.mappings)
  IN (fnOut.op # "none" /\ \E i \in DOMAIN parts : Head(parts[i]) = "!") =>
     /\ fnOut.op = "get" =>
          /\ fnOut.st = Walk(fnIn.doc, reads).st
          /\ fnOut.val = Walk(fnIn.doc, reads).val
     /\ Applied("set", "ok") =>
          Walk(fnOut.doc, writes) = [st |-> "ok", val |-> NewValue]
     /\ Applied("push", "ok") =>
          /\ Walk(fnOut.doc, writes).st = "ok"
          /\ IsList(Walk(fnOut.doc, writes).val)
          /\ Walk(fnOut.doc, writes).val.l # <<>>
          /\ Walk(fnOut.doc, writes).val.l[Len(Walk(fnOut.doc, writes).val.l)] = NewValue
     /\ fnOut.op = "delete" =>
          /\ fnOut.st = "True" <=> Walk(fnIn.doc, reads).st = "ok"
          /\ fnOut.st = "True" => Walk(fnOut.doc, reads).st # "ok"

\* What the operation fnOut records gives for the same document with the
\* empty segments of the path removed: how it ends, the value, the document.
CleanPath == WithoutEmpty(fnIn.path, fnIn.delimiter)
OnCleanPath ==
  LET g == get_path(fnIn.doc, CleanPath, fnIn.mappings, fnIn.delimiter)
      w == CASE fnOut.op = "set" ->
                  set_path(fnIn.doc, CleanPath, NewValue, fnIn.mappings, fnIn.delimiter)
             [] fnOut.op = "push" ->
                  push(fnIn.doc, CleanPath, NewValue, fnIn.mappings, fnIn.delimiter)
             [] OTHER ->
                  delete_path(fnIn.doc, CleanPath, fnIn.mappings, fnIn.delimiter)
  IN CASE fnOut.op = "get" ->
            Outcome("get", g.st, IF g.st = "ok" THEN g.val ELSE EmptyDict, fnIn.doc)
       [] fnOut.op = "exists" ->
            Outcome("exists",
                    IF g.st = "ok" THEN "True"
                    ELSE IF g.st = "KeyError" THEN "False" ELSE g.st,
                    EmptyDict, fnIn.doc)
       [] OTHER -> Outcome(fnOut.op, w.st, EmptyDict, w.doc)

\* C21: empty path segments are skipped: get, set, delete, exists and push
\* on a path with a leading, trailing or doubled delimiter behave exactly
\* like on the same path with its empty segments removed.
C21_EmptySegmentsSkipped ==
  (fnOut.op # "none" /\ CleanPath # <<>>) => fnOut = OnCleanPath

\* Everything the destination held is still there: a scalar is the same, a
\* dict has kept its keys, a list is the same or, in list mode, a prefix.
RECURSIVE Kept(_, _, _)
Kept(before, after, lists) ==
  CASE IsDict(before) ->
         /\ IsDict(after)
         /\ \A k \in DOMAIN before.d :
              k \in DOMAIN after.d /\ Kept(before.d[k], after.d[k], lists)
    [] IsList(before) ->
         /\ IsList(after)
         /\ IF lists
            THEN /\ Len(after.l) >= Len(before.l)
                 /\ SubSeq(after.l, 1, Len(before.l)) = before.l
            ELSE after = before
    [] OTHER -> after = before

\* The name under which the destination holds a source key, "" when it
\* holds it under neither the key nor its mapped name.
HeldAs(key, to_value, mappings) ==
  IF key \in DOMAIN to_value.d THEN key
  ELSE IF mappings # NoMappings /\ MapGet(mappings, key) \in DOMAIN to_value.d
       THEN MapGet(mappings, key)
  ELSE <<>>
AddedAs(key, mappings) == IF mappings # NoMappings THEN MapGet(mappings, key) ELSE key

\* The result is the destination with the source merged in, key by key.
RECURSIVE MergedInto(_, _, _, _, _)
MergedInto(from_value, to_value, merged, mappings, lists) ==
  /\ IsDict(merged)
  /\ DOMAIN merged.d =
       DOMAIN to_value.d \cup
       {AddedAs(key, mappings) : key \in {k \in DOMAIN from_value.d :
                                            HeldAs(k, to_value, mappings) = <<>>}}
  /\ \A key \in DOMAIN from_value.d :
       LET name == HeldAs(key, to_value, mappings)
           value == from_value.d[key]
       IN IF name = <<>> THEN merged.d[AddedAs(key, mappings)] = value
          ELSE IF IsDict(value) /\ IsDict(to_value.d[name])
          THEN MergedInto(value, to_value.d[name], merged.d[name], mappings, lists)
          ELSE IF IsList(value) /\ IsList(to_value.d[name])
          THEN merged.d[name] =
                 IF lists THEN ListOf(to_value.d[name].l \o value.l) ELSE to_value.d[name]
          ELSE merged.d[name] = to_value.d[name]
  /\ \A k \in DOMAIN to_value.d :
       (\A key \in DOMAIN from_value.d : HeldAs(key, to_value, mappings) # k)
         => merged.d[k] = to_value.d[k]

\* C22: merging a source into a destination never changes or removes a
\* scalar of the destination; when the merge returns, the keys the
\* destination lacked are added, nested dicts are merged recursively, and
\* lists on both sides are joined (destination first) in list mode and left
\* untouched otherwise.
C22_MergeSemantics ==
  fnOut.op = "merge" =>
    /\ Kept(fnIn.to_value, fnOut.doc, fnIn.lists)
    /\ fnOut.st = "ok" =>
         MergedInto(fnIn.from_value, fnIn.to_value, fnOut.doc, fnIn.mappings, fnIn.lists)

\* A merge in list mode that kept a scalar, added a key, and joined two
\* lists one level down.
C22_Witness ==
  /\ fnOut.op = "merge" /\ fnOut.st = "ok" /\ fnIn.lists
  /\ fnIn.to_value = DictOf((Key("foo") :> DictOf(Key("f") :> ListOf(<<IntOf(1)>>)))
                            @@ (Sibling :> IntOf(2)))
  /\ fnIn.from_value = DictOf(Key("foo") :> DictOf((Key("f") :> ListOf(<<IntOf(11)>>))
                                                   @@ (Sibling :> IntOf(12))))
  /\ fnOut.doc = DictOf((Key("foo") :> DictOf((Key("f") :> ListOf(<<IntOf(1), IntOf(11)>>))
                                               @@ (Sibling :> IntOf(12))))
                        @@ (Sibling :> IntOf(2)))

\* What get finds at the path, before the pushes and now.
AtPathBefore == get_path(fnIn.doc, fnIn.path, fnIn.mappings, fnIn.delimiter)
AtPathNow == get_path(PushDoc, fnIn.path, fnIn.mappings, fnIn.delimiter)

\* C23: after any series of pushes to p, the sequence at p holds what it
\* held before followed by every pushed value in push order (the sequence
\* and the missing dicts on the way being created); and a push to a path
\* that holds a non-sequence raises TypeError.
C23_PushSeries ==
  fnOut.op = "push" =>
    /\ fnOut.st = "ok" =>
         /\ AtPathNow.st = "ok" /\ IsList(AtPathNow.val)
         /\ AtPathNow.val.l =
              (IF AtPathBefore.st = "ok" /\ IsList(AtPathBefore.val)
               THEN AtPathBefore.val.l ELSE <<>>) \o Pushed
    /\ (AtPathBefore.st = "ok" /\ ~IsList(AtPathBefore.val)) => fnOut.st = "TypeError"

\* C24: get(p) returns the stored value when p resolves; otherwise the
\* default passed in the call; otherwise the default registered for p; and
\* it raises KeyError only when none of the three exists.
C24_GetDefaults ==
  fnOut.op = "get" =>
    LET stored == get_path(fnIn.doc, fnIn.path, fnIn.mappings, fnIn.delimiter)
    IN IF stored.st = "ok" THEN fnOut.st = "ok" /\ fnOut.val = stored.val
       ELSE IF fnIn.default # EMPTY THEN fnOut.st = "ok" /\ fnOut.val = fnIn.default
       ELSE IF fnIn.path \in DOMAIN fnIn.defaults
       THEN fnOut.st = "ok" /\ fnOut.val = fnIn.defaults[fnIn.path]
       ELSE fnOut.st = "KeyError"

\* C25: unpack(pack(d)) equals d for every document d that holds a
\* decimal, a calendar date and a nested dict with non-ASCII strings.
C25_PackUnpackRoundTrip ==
  fnOut.op = "unpack" => fnOut.val = fnIn.doc

\* Whether a list is a marker the decoder knows and can read.
IsKnownMarker(data) ==
  /\ Len(data.l) = 3 /\ data.l[1] = StrOf("type")
  /\ \/ data.l[2] = StrOf("decimal") /\ CanJoin(data.l[3]) /\ IsDecimalLiteral(Joined(data.l[3]))
     \/ data.l[2] = StrOf("datetime") /\ IsStr(data.l[3]) /\ strptime_datetime(Chars(data.l[3])).ok
     \/ data.l[2] = StrOf("date") /\ IsStr(data.l[3]) /\ strptime_date(Chars(data.l[3])).ok
     \/ data.l[2] = StrOf("time")

\* C26: decoding a three-element marker ['type', name, value] whose type
\* name is unknown, or whose value is malformed for its type, gives None
\* (and does not raise).
C26_BadMarkerIsNone ==
  (fnOut.op = "decode" /\ Len(fnIn.doc.l) = 3 /\ fnIn.doc.l[1] = StrOf("type")
     /\ ~IsKnownMarker(fnIn.doc))
    => fnOut.st = "ok" /\ fnOut.val = NoneValue

\* A version agrees with a pattern when both have as many segments and
\* every segment of the pattern that is not '*' equals the version's; the
\* pattern '*' alone stands for the latest version of all.
Agrees(pattern, version) ==
  LET p == split(RemoveDuplicates(pattern), ".")
      v == split(version, ".")
  IN \/ p = <<<<"*">>>>
     \/ /\ Len(p) = Len(v)
        /\ \A i \in DOMAIN p : p[i] = <<"*">> \/ p[i] = v[i]
Agreeing == {v \in fnIn.versions : Agrees(fnIn.pattern, v)}

\* C27: resolution of a pattern with wildcards against a set of versions
\* returns the highest version of the set that agrees with the pattern on
\* every segment that is not a wildcard, and raises VersionNotFound when no
\* version of the set agrees, the empty set included.
C27_HighestMatching ==
  fnOut.op = "resolve" =>
    IF Agreeing = {} THEN fnOut.st = "VersionNotFound"
    ELSE /\ fnOut.st = "ok"
         /\ fnOut.val = sort_versions(Agreeing)[Cardinality(Agreeing)]

\* C28: once stop() has been called, before listen(), while listening or
\* by the loop's exception handler, the listener is stopped for good: the
\* call did not fail, every socket opened is closed and both attributes
\* are None, no frame is received and no response is sent afterwards, and
\* a further stop() changes nothing of this.
C28_StoppedIsTerminal ==
  fnOut.stopped =>
    /\ fnOut.op = "stop" => fnOut.raised = "none"
    /\ fnOut.socket = "None" /\ fnOut.worker_socket = "None"
    /\ fnOut.closed = fnOut.opened
    /\ fnOut.received = fnOut.at[1] /\ fnOut.sent = fnOut.at[2]

\* C29: whatever frames replace the registry while a handler runs, each
\* lookup the handler makes (call, defer_call, remote_call, set_download)
\* gives the answer it would have given against the table the registry
\* held when the request started.
C29_OneTablePerRun ==
  fnOut.op \in {"call", "defer_call", "remote_call", "set_download"} =>
    fnOut.answer = AnswerOf(fnOut.op, fnIn.table, ServiceSchema(fnIn.table))

\* C30: a set, push or merge that raises TypeError leaves the document
\* exactly as it was before the call.
C30_TypeErrorLeavesDocument ==
  IF fnOut.op = "none" THEN TRUE
  ELSE fnOut.st = "TypeError" => fnOut.doc = fnIn.doc
============================================================================
